---------------------------- MODULE Spec2Model ----------------------------
(***************************************************************************)
(* A model of the browser SDK ABTrackerEnterprise                          *)
(* (src/snippet/ab-tracker-sdk/src/index.ts): identity and session         *)
(* resolution, configuration loading, experiment processing (targeting,    *)
(* sampling, bucketing, assignment, exposure), the anti-flicker            *)
(* hide/reveal lifecycle with its failsafe timer, goal tracking with the   *)
(* attribution gate, and the event queue.                                  *)
(*                                                                         *)
(* One browser tab is modelled.  The persisted stores (cookie,             *)
(* localStorage, sessionStorage) survive page loads; the SDK object and    *)
(* its timers live for one page load.  Every action is one macrotask of    *)
(* the page's event loop: a handler together with the promise              *)
(* continuations (microtasks) it triggers.                                 *)
(*                                                                         *)
(* Two clocks: now is wall-clock time in coarse periods (cache TTL,        *)
(* session timeout and attribution window are measured in it); elapsed is  *)
(* the time since construction of the current page in fine ticks (fetch    *)
(* abort, element waits and the failsafe are measured in it).  A coarse    *)
(* period is longer than every fine timer.                                 *)
(***************************************************************************)
EXTENDS Integers, Sequences, FiniteSets, TLC

\* ------------------------------------------------------------------ bounds
MaxStimuli == 3     \* visitor and host-page events in one behaviour: page
                    \* loads, interactions, trackEvent and flush calls,
                    \* navigations, element insertions, idle periods
MaxTime == 6        \* last wall-clock period

\* ------------------------------------------------------- program constants
CACHE_TTL == 1            \* 60 s, in periods
SESSION_TIMEOUT_MS == 1   \* 30 min, in periods
attributionWindowDays == 2 \* 30 days, in periods
StartTime == attributionWindowDays + 1   \* Date.now() of the first page load
FLUSH_AT == 5             \* queue length that triggers a flush
FetchAbortTicks == 1      \* 800 ms, in ticks
antiFlickerTimeout == 2   \* 1500 ms, in ticks
DefaultWait == 1          \* change.waitForSelector ?? 50, in ticks
LongWait == antiFlickerTimeout + 1   \* a configured waitForSelector beyond
                                     \* the failsafe
MaxElapsed == LongWait    \* elapsed saturates here (all fine timers are over)

Null == "null"
Undefined == 0            \* this.sessionId before the constructor assigns it;
                          \* also an absent ab_ent_sid (session ids are 1, 2, ...)

VisitorIds == {"v1", "v2"}            \* values generateUUID() may return
ExpIds == {"e1", "e2"}
Urls == {"/a", "/b"}
Selectors == {"s1"}

EmptyMap == [x \in {} |-> x]
Min(a, b) == IF a <= b THEN a ELSE b

\* ------------------------------------------------------------------- hash
\* charCodeAt for the identifiers of the model
CharCodes(s) ==
  CASE s = "v1" -> <<118, 49>>
    [] s = "v2" -> <<118, 50>>
    [] s = "e1" -> <<101, 49>>
    [] s = "e2" -> <<101, 50>>
    [] s = "e3" -> <<101, 51>>
    [] s = "alloc" -> <<97, 108, 108, 111, 99>>

\* One loop iteration of hashCode on a 32-bit value held as two 16-bit
\* limbs <<hi, lo>>: ((hash << 5) - hash + char) truncated to 32 bits by
\* hash & hash, i.e. 31 * hash + char modulo 2^32.
HashStep(h, c) ==
  LET lo == 31 * h[2] + c
      hi == 31 * h[1] + (lo \div 65536)
  IN  <<hi % 65536, lo % 65536>>

RECURSIVE HashLoop(_, _, _)
HashLoop(str, i, h) ==
  IF i > Len(str) THEN h ELSE HashLoop(str, i + 1, HashStep(h, str[i]))

\* Math.abs(hash) % 100 for the signed 32-bit value of the limbs
\* (2^16 % 100 = 36, 2^32 % 100 = 96).
AbsMod100(h) ==
  LET u == ((h[1] % 100) * 36 + h[2]) % 100
  IN  IF h[1] >= 32768 THEN (96 - u + 100) % 100 ELSE u

\* hashCode(str) % 100, the only way the callers use the hash
hashCode100(str) == AbsMod100(HashLoop(str, 1, <<0, 0>>))

\* the walk of bucket() stopping at a cumulative weight equal to the hash
RECURSIVE bucketWalkInclusive(_, _, _, _)
bucketWalkInclusive(variants, i, weightSum, h) ==
  IF i > Len(variants) THEN variants[1].id
  ELSE IF h <= weightSum + variants[i].trafficWeight THEN variants[i].id
  ELSE bucketWalkInclusive(variants, i + 1,
                           weightSum + variants[i].trafficWeight, h)

RECURSIVE bucketWalk(_, _, _, _)
bucketWalk(variants, i, weightSum, h) ==
  IF i > Len(variants) THEN variants[1].id
  ELSE IF h < weightSum + variants[i].trafficWeight THEN variants[i].id
  ELSE bucketWalk(variants, i + 1, weightSum + variants[i].trafficWeight, h)

bucket(vid, salt, variants) ==
  bucketWalk(variants, 1, 0, hashCode100(CharCodes(vid) \o CharCodes(salt)))

\* isUserInSample() with the comparison turned around
isUserInSampleInverted(vid, expId, allocation) ==
  hashCode100(CharCodes(vid) \o CharCodes(expId) \o CharCodes("alloc")) >= allocation

isUserInSample(vid, expId, allocation) ==
  hashCode100(CharCodes(vid) \o CharCodes(expId) \o CharCodes("alloc")) < allocation


\* ---------------------------------------------------------- configuration
\* The snapshots the configuration service may serve.  A urlPattern is
\* modelled by the set of URLs its regular expression matches; a change by
\* its selector and its element-wait timeout.
Variant(id, isControl, w, changes) ==
  [id |-> id, isControl |-> isControl, trafficWeight |-> w, changes |-> changes]

Change(sel, wait) ==
  [selector |-> sel, waitForSelector |-> wait, action |-> "setText"]

Experiment(id, status, alloc, urls, auds, variants) ==
  [id |-> id, status |-> status, trafficAllocation |-> alloc,
   urlPattern |-> urls, audiences |-> auds, variants |-> variants]

Goal(id, type, sel, urls, ev, exps) ==
  [id |-> id, type |-> type, selector |-> sel, urlPattern |-> urls,
   eventName |-> ev, experimentIds |-> exps]

Audience(type, key, op, val) ==
  [type |-> type, key |-> key, operator |-> op, value |-> val]

\* Both snapshots declare three goals; together they cover the six goal types.
Goals1 ==
  << Goal("g1", "CLICK", "btn", {}, Null, {}),
     Goal("g2", "PAGE_VIEW", Null, {"/b"}, Null, {"e2"}),
     Goal("g3", "CUSTOM_EVENT", Null, {}, "purchase", {"e1"}) >>

Goals2 ==
  << Goal("g4", "SCROLL", "50", {}, Null, {}),
     Goal("g5", "FORM_SUBMIT", "form", {}, Null, {"e1", "e2"}),
     Goal("g6", "ELEMENT_VISIBILITY", "s1", {}, Null, {}) >>

Configs ==
  << [experiments |->
        << Experiment("e1", "RUNNING", 100, {"/a"}, << >>,
             << Variant("c", TRUE, 5, << >>),
                Variant("t", FALSE, 95, << Change("s1", DefaultWait) >>) >>),
           Experiment("e2", "RUNNING", 80, {"/b"},
             << Audience("QUERY_PARAM", "p", "IS", "x") >>,
             << Variant("c", TRUE, 50, << >>),
                Variant("t", FALSE, 50, << Change("s1", LongWait) >>) >>),
           Experiment("e3", "PAUSED", 100, {"/a", "/b"}, << >>,
             << Variant("c", TRUE, 100, << >>) >>) >>,
      goals |-> Goals1],
     [experiments |->
        << Experiment("e1", "RUNNING", 10, {"/a"},
             << Audience("DEVICE", Null, "IS_NOT", "mobile") >>,
             << Variant("c", TRUE, 50, << >>),
                Variant("t", FALSE, 50, << Change("s1", DefaultWait) >>) >>),
           Experiment("e2", "RUNNING", 100, {"/a", "/b"},
             << Audience("QUERY_PARAM", "p", "IS", "x") >>,
             << Variant("c", TRUE, 5, << >>),
                Variant("t", FALSE, 95, << Change("s1", LongWait) >>) >>) >>,
      goals |-> Goals2] >>

ConfigIds == DOMAIN Configs

\* A urlPattern that is no regular expression (new RegExp throws a
\* SyntaxError), and a selector that is no selector (querySelectorAll throws).
InvalidRegex == {"SyntaxError"}
BadSelector == "SyntaxError"

\* A snapshot with faults: a change of e1 has a selector that cannot be
\* evaluated, its sibling change replaces nodes (which throws on the root
\* element), and the entry e4 between e2 and e3 has an invalid urlPattern.
FaultyConfig ==
  [experiments |->
     << Experiment("e1", "RUNNING", 100, {"/a"}, << >>,
          << Variant("c", TRUE, 5, << >>),
             Variant("t", FALSE, 95,
               << Change(BadSelector, DefaultWait),
                  [Change("s1", DefaultWait) EXCEPT !.action = "replaceNode"] >>) >>),
        Experiment("e2", "RUNNING", 100, {"/a", "/b"}, << >>,
          << Variant("c", TRUE, 5, << >>),
             Variant("t", FALSE, 95, << Change("s1", LongWait) >>) >>),
        Experiment("e4", "RUNNING", 100, InvalidRegex, << >>,
          << Variant("c", TRUE, 100, << >>) >>),
        Experiment("e3", "RUNNING", 100, {"/a", "/b"}, << >>,
          << Variant("c", TRUE, 100, << >>) >>) >>,
   goals |-> Goals1]

Snapshots == Configs \o << FaultyConfig >>
FaultyConfigId == Len(Configs) + 1

\* The elements a selector of the model matches once the host page has
\* inserted them, and the mutations that throw: el.outerHTML = value on the
\* root element (its parent is the document).
Elements(sel) == {"html", "div"}
Throws(action, el) == action = "replaceNode" /\ el = "html"
NoConfig == 0
NoCache == [ts |-> 0, data |-> NoConfig]   \* no ab_ent_config entry

\* One evaluation of isUserInSample(): the allocation passed and the result
NoCall == [allocation |-> -1, admitted |-> FALSE]     \* not evaluated yet
\* no pure function under evaluation
NoProbe == [visitorId |-> Null, experimentId |-> Null,
            first |-> NoCall, second |-> NoCall]

\* new URLSearchParams(location.search).get(key): "/b" stands for "/b?p=x"
QueryParam(u, key) == IF u = "/b" /\ key = "p" THEN "x" ELSE Null

\* CookieUtils.get(key) for the cookies of the host page: one cookie, c=xy
Cookie(key) == IF key = "c" THEN "xy" ELSE Null

\* window[key] for the globals of the host page: one global, n = 10
JsVar(key) == IF key = "n" THEN "10" ELSE Null

\* navigator.userAgent, and the device class the DEVICE case derives from it
UserAgent == "Mozilla/5.0 (X11; Linux x86_64)"
Device == "desktop"

\* ---------------------------------------------------------------- targeting
\* the characters of the strings audience predicates compare
Chars(str) ==
  CASE str = "x" -> <<"x">>
    [] str = "xy" -> <<"x", "y">>
    [] str = "y" -> <<"y">>
    [] str = "10" -> <<"1", "0">>
    [] str = "2" -> <<"2">>
    [] str = "desktop" -> <<"d", "e", "s", "k", "t", "o", "p">>
    [] str = "mobile" -> <<"m", "o", "b", "i", "l", "e">>
    [] OTHER -> <<str>>

\* String(a).indexOf(String(b)) > -1
IndexOf(a, b) ==
  LET s == Chars(a)
      t == Chars(b)
  IN  \E k \in 0 .. Len(s) - Len(t) :
        \A i \in 1 .. Len(t) : s[k + i] = t[i]

\* Number(str): the number a numeric string stands for, NaN otherwise; the
\* numbers of the model are naturals and NaN is written -1, which the
\* comparisons test for
NaN == -1
Number(str) ==
  CASE str = "10" -> 10
    [] str = "2" -> 2
    [] OTHER -> NaN

\* the second switch of the every() callback
compare(operator, userValue, value) ==
  CASE operator = "IS" -> userValue = value
    [] operator = "IS_NOT" -> userValue # value
    [] operator = "CONTAINS" -> IndexOf(userValue, value)
    [] operator = "NOT_CONTAINS" -> ~ IndexOf(userValue, value)
    [] operator = "MATCHES_REGEX" -> IndexOf(userValue, value)
    [] operator = "GREATER_THAN" ->
         /\ Number(userValue) # NaN /\ Number(value) # NaN
         /\ Number(userValue) > Number(value)
    [] operator = "LESS_THAN" ->
         /\ Number(userValue) # NaN /\ Number(value) # NaN
         /\ Number(userValue) < Number(value)
    [] OTHER -> TRUE

\* the first switch of the every() callback
userValueOf(aud, u) ==
  CASE aud.type = "DEVICE" -> Device
    [] aud.type = "BROWSER" -> UserAgent
    [] aud.type = "QUERY_PARAM" -> QueryParam(u, aud.key)
    [] aud.type = "COOKIE" -> Cookie(aud.key)
    [] aud.type = "JS_VAR" -> JsVar(aud.key)
    [] OTHER -> Null

AudienceTypes == {"DEVICE", "BROWSER", "QUERY_PARAM", "COOKIE", "JS_VAR"}

\* the every() callback without its check for a missing value: String(null)
\* is compared
checkAudienceNoNullCheck(aud, u) ==
  IF aud.type \notin AudienceTypes THEN TRUE
  ELSE compare(aud.operator, userValueOf(aud, u), aud.value)

checkAudience(aud, u) ==
  LET userValue == userValueOf(aud, u)
  IN  IF aud.type \notin AudienceTypes THEN TRUE
      ELSE IF userValue = Null THEN FALSE
      ELSE compare(aud.operator, userValue, aud.value)

checkAudiences(audiences, u) ==
  \A i \in DOMAIN audiences : checkAudience(audiences[i], u)

\* the checks of a pass without the one on the status
TargetedAnyStatus(exp, u) ==
  /\ u \in exp.urlPattern
  /\ checkAudiences(exp.audiences, u)

\* the experiments a pass does not skip before looking at the assignment
Targeted(exp, u) ==
  /\ exp.status = "RUNNING"
  /\ u \in exp.urlPattern
  /\ checkAudiences(exp.audiences, u)

\* exp.variants.find((v) => v.id === variantId): the index of the first
\* variant with that id, 0 (undefined) when there is none
find(variants, variantId) ==
  IF \E i \in DOMAIN variants : variants[i].id = variantId
    THEN CHOOSE i \in DOMAIN variants :
           /\ variants[i].id = variantId
           /\ \A j \in DOMAIN variants : variants[j].id = variantId => i <= j
    ELSE 0


\* ------------------------------------------------------------------- state
VARIABLES
  \* persisted stores of the browser
  cookieVid,        \* cookie ab_ent_vid
  lsVid,            \* localStorage ab_ent_vid
  ssSid,            \* sessionStorage ab_ent_sid
  lsLastActive,     \* localStorage ab_ent_last_active (0: absent)
  lsAssignments,    \* localStorage ab_ent_assignments
  lsExposures,      \* localStorage ab_ent_exposures
  lsConfigCache,    \* localStorage ab_ent_config: NoCache or [ts, data]
  \* environment
  now,              \* Date.now(), in periods
  dom,              \* selectors that match an element of the document
  url,              \* window.location
  nextSid,          \* the next value generateUUID() returns for a session
  \* the SDK object of the current page
  pc,               \* position of init(): none, fetch, body, waiting, raf, done
  visitorId, sessionId, assignments, exposures, config, eventQueue,
  activeExperiments, trackedGoals, isRevealed,
  failsafe,         \* failsafeTimer: none, pending, fired, cleared
  elapsed,          \* ticks since construction
  pendingWaits,     \* unresolved waitForElement calls
  applied,          \* changes applied to the document
  styleRemovals,    \* setTimeout(() => style.remove(), 100) calls made
  goalsSetup,       \* setupGoals() ran: scroll and visibility listeners exist
  observed,         \* selectors whose elements the IntersectionObserver observes
  \* the network and the history of the behaviour
  sent,             \* batches POSTed to the ingest URL
  produced,         \* every envelope ever passed to eventQueue.push
  loads,            \* page loads so far
  navs,             \* same-document navigations of the current page
  stimuli,          \* visitor and host-page events so far, loads included
  inFlight,         \* POSTs of the current page whose promise has not settled
  probe             \* arguments and results of a pure function under evaluation

persistedVars == <<cookieVid, lsVid, ssSid, lsLastActive, lsAssignments,
                   lsExposures, lsConfigCache>>
envVars == <<now, dom, url, nextSid>>
sdkVars == <<pc, visitorId, sessionId, assignments, exposures, config,
             eventQueue, activeExperiments, trackedGoals, isRevealed, failsafe,
             elapsed, pendingWaits, applied, styleRemovals, goalsSetup,
             observed, inFlight>>
historyVars == <<sent, produced, loads, navs, stimuli, probe>>
vars == <<persistedVars, envVars, sdkVars, historyVars>>

\* ----------------------------------------------------- the working record
\* The fields a synchronous stretch of SDK code reads and writes, threaded
\* through the operators below; an action commits the final record.
Cur ==
  [visitorId |-> visitorId, sessionId |-> sessionId,
   assignments |-> assignments, exposures |-> exposures,
   activeExperiments |-> activeExperiments, trackedGoals |-> trackedGoals,
   eventQueue |-> eventQueue, sent |-> sent, produced |-> produced,
   pendingWaits |-> pendingWaits, applied |-> applied,
   lsAssignments |-> lsAssignments, lsExposures |-> lsExposures,
   pc |-> pc, config |-> config, failsafe |-> failsafe,
   isRevealed |-> isRevealed, styleRemovals |-> styleRemovals,
   goalsSetup |-> goalsSetup, observed |-> observed, elapsed |-> elapsed,
   inFlight |-> inFlight,
   threw |-> FALSE,       \* the running pass threw an exception
   rejected |-> FALSE]    \* a promise of the running pass was rejected

Commit(m) ==
  /\ assignments' = m.assignments
  /\ exposures' = m.exposures
  /\ activeExperiments' = m.activeExperiments
  /\ trackedGoals' = m.trackedGoals
  /\ eventQueue' = m.eventQueue
  /\ sent' = m.sent
  /\ produced' = m.produced
  /\ pendingWaits' = m.pendingWaits
  /\ applied' = m.applied
  /\ lsAssignments' = m.lsAssignments
  /\ lsExposures' = m.lsExposures
  /\ pc' = m.pc
  /\ config' = m.config
  /\ failsafe' = m.failsafe
  /\ isRevealed' = m.isRevealed
  /\ styleRemovals' = m.styleRemovals
  /\ elapsed' = IF m.pc = "done" /\ m.pendingWaits = {} THEN MaxElapsed
                ELSE m.elapsed
  /\ goalsSetup' = m.goalsSetup
  /\ observed' = m.observed
  /\ inFlight' = m.inFlight

\* ------------------------------------------------------------ event queue
flushEvents(m) ==
  IF m.eventQueue = << >> THEN m
  ELSE [m EXCEPT !.sent = Append(@, m.eventQueue), !.eventQueue = << >>,
                 !.inFlight = @ + 1]

\* enqueueEvent() without the flush at the threshold
enqueueEventNoFlush(m, type, id, variantId, attributed) ==
  LET env == [eventType |-> type, visitorId |-> m.visitorId,
              sessionId |-> m.sessionId, id |-> id, variantId |-> variantId,
              attributedExperiments |-> attributed]
  IN  [m EXCEPT !.eventQueue = Append(@, env), !.produced = Append(@, env)]

\* The envelope fields the model keeps: eventType, visitorId, sessionId and
\* the type-specific fields (experimentId or goalId or eventName as id).
enqueueEvent(m, type, id, variantId, attributed) ==
  LET env == [eventType |-> type, visitorId |-> m.visitorId,
              sessionId |-> m.sessionId, id |-> id, variantId |-> variantId,
              attributedExperiments |-> attributed]
      m1 == [m EXCEPT !.eventQueue = Append(@, env),
                      !.produced = Append(@, env)]
  IN  IF Len(m1.eventQueue) >= FLUSH_AT THEN flushEvents(m1) ELSE m1

\* --------------------------------------------------------- exposure ledger
\* recordExposure() with the increment outside the else branch: a first
\* exposure is created and then counted again
recordExposureFallThrough(m, experimentId, variantId, t) ==
  LET exps == [e \in DOMAIN m.exposures \cup {experimentId} |->
                 IF e # experimentId THEN m.exposures[e]
                 ELSE IF e \in DOMAIN m.exposures
                   THEN [m.exposures[e] EXCEPT !.exposureCount = @ + 1]
                   ELSE [variantId |-> variantId, exposedAt |-> t,
                         exposureCount |-> 2]]
  IN  [m EXCEPT !.exposures = exps, !.lsExposures = exps]

\* recordExposure() restarting the window of an existing record
recordExposureRefresh(m, experimentId, variantId, t) ==
  LET exps == [e \in DOMAIN m.exposures \cup {experimentId} |->
                 IF e # experimentId THEN m.exposures[e]
                 ELSE IF e \in DOMAIN m.exposures
                   THEN [m.exposures[e] EXCEPT !.exposureCount = @ + 1,
                                               !.exposedAt = t]
                   ELSE [variantId |-> variantId, exposedAt |-> t,
                         exposureCount |-> 1]]
  IN  [m EXCEPT !.exposures = exps, !.lsExposures = exps]

\* recordExposure() writing a new record over the existing one
recordExposureOverwrite(m, experimentId, variantId, t) ==
  LET exps == [e \in DOMAIN m.exposures \cup {experimentId} |->
                 IF e = experimentId
                   THEN [variantId |-> variantId, exposedAt |-> t,
                         exposureCount |-> 1]
                   ELSE m.exposures[e]]
  IN  [m EXCEPT !.exposures = exps, !.lsExposures = exps]

recordExposure(m, experimentId, variantId, t) ==
  LET exps == IF experimentId \in DOMAIN m.exposures
                THEN [m.exposures EXCEPT ![experimentId].exposureCount = @ + 1]
                ELSE [e \in DOMAIN m.exposures \cup {experimentId} |->
                        IF e = experimentId
                          THEN [variantId |-> variantId, exposedAt |-> t,
                                exposureCount |-> 1]
                          ELSE m.exposures[e]]
  IN  [m EXCEPT !.exposures = exps, !.lsExposures = exps]

hasAnyExposure(m) == DOMAIN m.exposures # {}

getExposedExperiments(m) ==
  { [experimentId |-> e, variantId |-> m.exposures[e].variantId] :
      e \in DOMAIN m.exposures \cap DOMAIN m.assignments }

\* the exposures cleanupExpiredExposures() keeps
cleanupExpiredExposures(exps, t) ==
  LET keep == { e \in DOMAIN exps :
                  ~ (t - exps[e].exposedAt > attributionWindowDays) }
  IN  [e \in keep |-> exps[e]]

\* ------------------------------------------------------- mutation applier
\* waitForElement(selector, timeout).then(apply): elements already present
\* resolve at once and the change is applied; a non-positive timeout
\* resolves with nothing; otherwise the wait stays pending until the
\* observer or its timer resolves it.
\* applyChangeToElements() with the try block around the forEach: the first
\* element (the root) that throws ends the loop
applyChangeToElementsUncaught(m, expId, sel, action, pass) ==
  IF \E el \in Elements(sel) : Throws(action, el) THEN m
  ELSE [m EXCEPT !.applied = @ \cup
          { [experimentId |-> expId, selector |-> sel, pass |-> pass,
             element |-> el] : el \in Elements(sel) }]

\* applyChangeToElements(): every element is mutated in its own try block
applyChangeToElements(m, expId, sel, action, pass) ==
  [m EXCEPT !.applied = @ \cup
     { [experimentId |-> expId, selector |-> sel, pass |-> pass,
        element |-> el] :
         el \in { x \in Elements(sel) : ~ Throws(action, x) } }]

\* A selector that cannot be evaluated throws in the executor of the
\* promise of waitForElement(): that promise is rejected, the others of the
\* changes.map() are made all the same.
RECURSIVE applyChanges(_, _, _, _, _)
applyChanges(m, expId, changes, i, ctx) ==
  IF i > Len(changes) THEN m
  ELSE
    LET c == changes[i]
        m1 == IF c.selector = BadSelector THEN [m EXCEPT !.rejected = TRUE]
              ELSE IF c.selector \in ctx.dom
                THEN applyChangeToElements(m, expId, c.selector, c.action,
                                           ctx.pass)
              ELSE IF c.waitForSelector <= 0 THEN m
              ELSE [m EXCEPT !.pendingWaits = @ \cup
                      {[experimentId |-> expId, selector |-> c.selector,
                        action |-> c.action, pass |-> ctx.pass,
                        due |-> Min(ctx.elapsed + c.waitForSelector,
                                    MaxElapsed)]}]
    IN  applyChanges(m1, expId, changes, i + 1, ctx)


\* ---------------------------------------------------- experiment processing
\* the assignment of exp written by bucket(), at time t
\* the new assignment kept in memory and not written to the store
assignInMemory(m, exp, t) ==
  LET asg == [e \in DOMAIN m.assignments \cup {exp.id} |->
                IF e = exp.id
                  THEN [variantId |-> bucket(m.visitorId, exp.id, exp.variants),
                        assignedAt |-> t]
                  ELSE m.assignments[e]]
  IN  [m EXCEPT !.assignments = asg]

assign(m, exp, t) ==
  LET asg == [e \in DOMAIN m.assignments \cup {exp.id} |->
                IF e = exp.id
                  THEN [variantId |-> bucket(m.visitorId, exp.id, exp.variants),
                        assignedAt |-> t]
                  ELSE m.assignments[e]]
  IN  [m EXCEPT !.assignments = asg, !.lsAssignments = asg]

\* "get or create assignment" without the sampling gate
getOrCreateAssignmentUngated(m, exp, t) ==
  IF exp.id \in DOMAIN m.assignments THEN m
  ELSE assign(m, exp, t)

\* "get or create assignment" without the look-up of the stored assignment:
\* every evaluation of a sampled visitor buckets again
getOrCreateAssignmentRebucket(m, exp, t) ==
  IF ~ isUserInSample(m.visitorId, exp.id, exp.trafficAllocation) THEN m
  ELSE assign(m, exp, t)

\* "Get or create assignment": the stored assignment if there is one, else
\* none for a visitor outside the sample, else the bucketed variant, persisted
getOrCreateAssignment(m, exp, t) ==
  IF exp.id \in DOMAIN m.assignments THEN m
  ELSE IF ~ isUserInSample(m.visitorId, exp.id, exp.trafficAllocation) THEN m
  ELSE assign(m, exp, t)

\* One iteration of the loop of processExperiments() for the experiment exp.
processExperiment(m, exp, ctx) ==
  IF ~ Targeted(exp, ctx.url) THEN m
  ELSE
    LET m1 == getOrCreateAssignment(m, exp, ctx.now)
    IN
    IF exp.id \notin DOMAIN m1.assignments THEN m
    ELSE
      LET variantId == m1.assignments[exp.id].variantId
          vi == find(exp.variants, variantId)
          m2 == IF vi # 0 /\ ~ exp.variants[vi].isControl
                  THEN applyChanges(m1, exp.id, exp.variants[vi].changes, 1, ctx)
                  ELSE m1
          m3 == recordExposure(m2, exp.id, variantId, ctx.now)
      IN  IF exp.id \in m3.activeExperiments THEN m3
          ELSE enqueueEvent(
                 [m3 EXCEPT !.activeExperiments = @ \cup {exp.id}],
                 "EXPERIMENT_VIEW", exp.id, variantId, {})

\* new RegExp(exp.urlPattern) throws
RegExpThrows(exp) == exp.status = "RUNNING" /\ exp.urlPattern = InvalidRegex

\* the for loop: an exception thrown by an iteration leaves the loop
RECURSIVE processLoop(_, _, _, _)
processLoop(m, experiments, i, ctx) ==
  IF i > Len(experiments) THEN m
  ELSE IF RegExpThrows(experiments[i]) THEN [m EXCEPT !.threw = TRUE]
  ELSE processLoop(processExperiment(m, experiments[i], ctx),
                   experiments, i + 1, ctx)

\* The synchronous part of processExperiments(), up to its await.
processExperiments(m, ctx) ==
  IF ctx.config = NoConfig THEN m
  ELSE processLoop(m, Snapshots[ctx.config].experiments, 1, ctx)

\* ------------------------------------------------------------ goal tracking
\* tryRecordConversion() without the filter on goal.experimentIds
tryRecordConversionUnfiltered(m, goal) ==
  LET goalSessionKey == <<goal.id, m.sessionId>>
  IN  IF goalSessionKey \in m.trackedGoals THEN m
      ELSE IF ~ hasAnyExposure(m) THEN m
      ELSE enqueueEvent([m EXCEPT !.trackedGoals = @ \cup {goalSessionKey}],
                        "GOAL_CONVERSION", goal.id, Null,
                        getExposedExperiments(m))

tryRecordConversion(m, goal) ==
  LET goalSessionKey == <<goal.id, m.sessionId>>
      exposed == getExposedExperiments(m)
      attributedExperiments ==
        IF goal.experimentIds # {}
          THEN { x \in exposed : x.experimentId \in goal.experimentIds }
          ELSE exposed
  IN  IF goalSessionKey \in m.trackedGoals THEN m
      ELSE IF ~ hasAnyExposure(m) THEN m
      ELSE IF goal.experimentIds # {} /\ attributedExperiments = {} THEN m
      ELSE enqueueEvent([m EXCEPT !.trackedGoals = @ \cup {goalSessionKey}],
                        "GOAL_CONVERSION", goal.id, Null, attributedExperiments)

\* goals.forEach(goal => { if (matches(goal)) tryRecordConversion(goal) })
RECURSIVE forEachGoal(_, _, _, _)
forEachGoal(m, goals, i, matches) ==
  IF i > Len(goals) THEN m
  ELSE forEachGoal(IF goals[i] \in matches
                     THEN tryRecordConversion(m, goals[i]) ELSE m,
                   goals, i + 1, matches)

GoalsOf(cfg) == IF cfg = NoConfig THEN << >> ELSE Snapshots[cfg].goals

GoalSet(cfg) == { GoalsOf(cfg)[i] : i \in DOMAIN GoalsOf(cfg) }

checkPageviewGoals(m, ctx) ==
  forEachGoal(m, GoalsOf(ctx.config), 1,
    { g \in GoalSet(ctx.config) :
        g.type = "PAGE_VIEW" /\ ctx.url \in g.urlPattern })


\* ----------------------------------------------------- visibility coordinator
\* revealPage() without its isRevealed guard
revealPageUnguarded(m) ==
  [m EXCEPT !.isRevealed = TRUE, !.styleRemovals = @ + 1]

revealPage(m) ==
  IF m.isRevealed THEN m
  ELSE [m EXCEPT !.isRevealed = TRUE, !.styleRemovals = @ + 1]

clearTimeout(m) ==
  [m EXCEPT !.failsafe = IF @ = "pending" THEN "cleared" ELSE @]

\* -------------------------------------------------------------------- init
Ctx(cfg, u, t, d, el, pass) ==
  [config |-> cfg, url |-> u, now |-> t, dom |-> d, elapsed |-> el,
   pass |-> pass]

\* setupGoals() and the finally block of init(): the listeners of the scroll
\* and visibility goals, the page-view check, clearTimeout(failsafeTimer)
\* and the animation-frame request that will reveal the page.
initFinish(m, ctx) ==
  LET visSel == { GoalsOf(m.config)[i].selector :
                    i \in { j \in DOMAIN GoalsOf(m.config) :
                              GoalsOf(m.config)[j].type = "ELEMENT_VISIBILITY" } }
      m1 == [m EXCEPT !.goalsSetup = TRUE, !.observed = visSel \cap ctx.dom]
      m2 == checkPageviewGoals(m1, ctx)
  IN  [clearTimeout(m2) EXCEPT !.pc = "raf"]

InitWaits(m) == { w \in m.pendingWaits : w.pass = 0 }

\* init() after loadConfig() has settled with a configuration: when
\* processExperiments() throws or one of its change promises is rejected,
\* the await rethrows into the catch block and setupGoals() is skipped
initWithConfig(m, ctx) ==
  LET m1 == processExperiments(m, ctx)
  IN  IF m1.threw \/ m1.rejected THEN [clearTimeout(m1) EXCEPT !.pc = "raf"]
      ELSE IF InitWaits(m1) # {} THEN [m1 EXCEPT !.pc = "waiting"]
      ELSE initFinish(m1, ctx)

\* the config-absent branch of init() returning without revealPage()
initWithoutConfigHidden(m) ==
  [clearTimeout(m) EXCEPT !.pc = "raf"]

\* init() after loadConfig() has settled without a configuration
initWithoutConfig(m) ==
  [clearTimeout(revealPage(m)) EXCEPT !.pc = "raf"]

\* loadConfig() after the fetch failed: the stale cache, if any
loadConfigFailed(cached) == IF cached # NoCache THEN cached.data ELSE NoConfig

initAfterLoad(m, cfg, u, t, d, el) ==
  IF cfg = NoConfig THEN initWithoutConfig([m EXCEPT !.config = NoConfig])
  ELSE initWithConfig([m EXCEPT !.config = cfg], Ctx(cfg, u, t, d, el, 0))


\* ------------------------------------------------------------------ actions
InitSdk ==
  /\ cookieVid = Null /\ lsVid = Null /\ ssSid = Undefined /\ lsLastActive = 0
  /\ lsAssignments = EmptyMap /\ lsExposures = EmptyMap
  /\ lsConfigCache = NoCache
  /\ now = StartTime /\ dom = {} /\ url = "/a"
  /\ nextSid = 1
  /\ pc = "none" /\ visitorId = Null /\ sessionId = Undefined
  /\ assignments = EmptyMap /\ exposures = EmptyMap /\ config = NoConfig
  /\ eventQueue = << >> /\ activeExperiments = {} /\ trackedGoals = {}
  /\ isRevealed = FALSE /\ failsafe = "none" /\ elapsed = 0
  /\ pendingWaits = {} /\ applied = {} /\ styleRemovals = 0
  /\ goalsSetup = FALSE /\ observed = {}
  /\ sent = << >> /\ produced = << >>
  /\ loads = 0 /\ navs = 0 /\ stimuli = 0
  /\ inFlight = 0

Init == InitSdk /\ probe = NoProbe

\* resolveVisitorId(): cookie, then localStorage, then a fresh value
resolveVisitorId(fresh) ==
  IF cookieVid # Null THEN cookieVid
  ELSE IF lsVid # Null THEN lsVid
  ELSE fresh

\* resolveSessionId() without the test of the inactivity timeout
sessionExpiredNoTimeout(t) == ssSid = Undefined

\* resolveSessionId() decides to start a new session
sessionExpired(t) ==
  \/ ssSid = Undefined
  \/ t - lsLastActive > SESSION_TIMEOUT_MS

\* loadConfig() uses the cached snapshot without fetching
cacheFresh(cached, t) == cached # NoCache /\ t - cached.ts < CACHE_TTL

\* A page load in the tab: the previous document, if any, is torn down
\* (its pagehide handler flushes the queue unless the teardown is abrupt),
\* then the host page calls initAB(): the constructor runs to its end and
\* init() runs to its first pending await.
PageLoad(u, d, fresh, graceful) ==
  /\ stimuli < MaxStimuli
  /\ pc = "none" => graceful
  /\ LET old == IF graceful THEN flushEvents(Cur) ELSE Cur
         vid == resolveVisitorId(fresh)
         newSession == sessionExpired(now)
         sid == IF newSession THEN nextSid ELSE ssSid
         exps == cleanupExpiredExposures(lsExposures, now)
         \* the fields of the new object when resolveSessionId() runs
         m0 == [old EXCEPT
                  !.visitorId = vid, !.sessionId = Undefined,
                  !.assignments = EmptyMap, !.exposures = EmptyMap,
                  !.activeExperiments = {}, !.trackedGoals = {},
                  !.eventQueue = << >>, !.pendingWaits = {}, !.applied = {},
                  !.pc = "fetch", !.config = NoConfig, !.failsafe = "none",
                  !.isRevealed = FALSE, !.styleRemovals = 0,
                  !.goalsSetup = FALSE, !.observed = {}, !.elapsed = 0,
                  !.inFlight = 0]
         m1 == IF newSession
                 THEN enqueueEvent(m0, "SESSION_START", Null, Null, {})
                 ELSE m0
         m2 == [m1 EXCEPT
                  !.sessionId = sid,
                  !.assignments = lsAssignments,
                  !.exposures = exps, !.lsExposures = exps,
                  !.failsafe = "pending"]
         m3 == IF cacheFresh(lsConfigCache, now)
                 THEN initAfterLoad(m2, lsConfigCache.data, u, now, d, 0)
                 ELSE m2
     IN  /\ Commit(m3)
         /\ visitorId' = vid /\ sessionId' = sid
         /\ cookieVid' = vid /\ lsVid' = vid
         /\ ssSid' = sid
         /\ nextSid' = IF newSession THEN nextSid + 1 ELSE nextSid
         /\ lsLastActive' = now
  /\ url' = u /\ dom' = d
  /\ loads' = loads + 1 /\ navs' = 0
  /\ stimuli' = stimuli + 1
  /\ UNCHANGED <<lsConfigCache, now, probe>>

\* the response headers arrive with a success status: clearTimeout(timeoutId)
FetchOk ==
  /\ pc = "fetch"
  /\ pc' = "body"
  /\ UNCHANGED <<persistedVars, envVars, historyVars, visitorId, sessionId,
                 assignments, exposures, config, eventQueue, activeExperiments,
                 trackedGoals, isRevealed, failsafe, elapsed, pendingWaits,
                 applied, styleRemovals, goalsSetup, observed, inFlight>>

\* loadConfig() settles with the configuration cfg (NoConfig: absent) and
\* init() continues
Settle(cfg) ==
  /\ Commit(initAfterLoad(Cur, cfg, url, now, dom, elapsed))
  /\ UNCHANGED <<cookieVid, lsVid, ssSid, lsLastActive, envVars, visitorId,
                 sessionId, loads, navs, stimuli, probe>>

\* the body parses: this.config = await res.json() is the snapshot c the
\* configuration service serves at that moment, and the cache is written
BodyOk(c) ==
  /\ pc = "body"
  /\ lsConfigCache' = [ts |-> now, data |-> c]
  /\ Settle(c)

\* the fetch rejects (network error, abort after 800 ms) or the status is
\* not a success
FetchFail ==
  /\ pc = "fetch"
  /\ UNCHANGED lsConfigCache
  /\ Settle(loadConfigFailed(lsConfigCache))

\* res.json() rejects: malformed body
BodyFail ==
  /\ pc = "body"
  /\ UNCHANGED lsConfigCache
  /\ Settle(loadConfigFailed(lsConfigCache))


\* ------------------------------------------------------------------ timers
\* the variables no timer, animation frame or stimulus of the page writes
frameVars == <<cookieVid, lsVid, ssSid, lsConfigCache, nextSid, visitorId,
               sessionId, loads, probe>>

\* A tick of the fine clock.  Timers are served on time: the clock does not
\* pass the deadline of a pending timer (fetch abort, failsafe, element
\* wait) before that timer has fired.  Animation frames have no deadline:
\* with no timer pending the clock runs on to its last value.
Tick ==
  /\ pc \in {"fetch", "body", "waiting", "raf"} \/ pendingWaits # {}
  /\ elapsed < MaxElapsed
  /\ pc = "fetch" => elapsed < FetchAbortTicks
  /\ failsafe = "pending" => elapsed < antiFlickerTimeout
  /\ \A w \in pendingWaits : elapsed < w.due
  /\ elapsed' = IF pc = "fetch" \/ failsafe = "pending" \/ pendingWaits # {}
                  THEN elapsed + 1 ELSE MaxElapsed
  /\ UNCHANGED <<persistedVars, now, dom, url, nextSid, historyVars,
                 pc, visitorId, sessionId, assignments, exposures, config,
                 eventQueue, activeExperiments, trackedGoals, isRevealed,
                 failsafe, pendingWaits, applied, styleRemovals, goalsSetup,
                 observed, inFlight>>

\* the failsafe timer of init() fires
FailsafeFire ==
  /\ failsafe = "pending"
  /\ elapsed >= antiFlickerTimeout
  /\ Commit(revealPage([Cur EXCEPT !.failsafe = "fired"]))
  /\ UNCHANGED <<frameVars, lsLastActive, now, dom, url, navs, stimuli>>

\* the waits in ws resolve; the changes whose elements exist are applied,
\* and init() continues once the last wait of the initial pass is resolved
resolveWaits(m, ws, d) ==
  LET hit == UNION {
               { [experimentId |-> w.experimentId, selector |-> w.selector,
                  pass |-> w.pass, element |-> el] :
                   el \in { x \in Elements(w.selector) : ~ Throws(w.action, x) } } :
               w \in { x \in ws : x.selector \in d } }
      m1 == [m EXCEPT !.pendingWaits = @ \ ws, !.applied = @ \cup hit]
  IN  IF m.pc = "waiting" /\ InitWaits(m1) = {}
        THEN initFinish(m1, Ctx(m.config, url, now, d, elapsed, 0))
        ELSE m1

\* the timer of a waitForElement call fires
WaitTimeout(w) ==
  /\ w \in pendingWaits
  /\ elapsed >= w.due
  /\ Commit(resolveWaits(Cur, {w}, dom))
  /\ UNCHANGED <<frameVars, lsLastActive, now, dom, url, navs, stimuli>>

\* the animation-frame callback requested by the finally block of init()
RafFire ==
  /\ pc = "raf"
  /\ Commit(revealPage([Cur EXCEPT !.pc = "done"]))
  /\ UNCHANGED <<frameVars, lsLastActive, now, dom, url, navs, stimuli>>

\* ----------------------------------------------------------------- stimuli
\* An event of the visitor or of the host page on the current page.
Stimulus ==
  /\ pc # "none"
  /\ stimuli < MaxStimuli
  /\ stimuli' = stimuli + 1

\* the host page inserts an element matching sel; the MutationObserver of
\* every wait on sel resolves it
DomInsert(sel) ==
  /\ Stimulus
  /\ sel \notin dom
  /\ dom' = dom \cup {sel}
  /\ Commit(resolveWaits(Cur, { w \in pendingWaits : w.selector = sel }, dom'))
  /\ UNCHANGED <<frameVars, lsLastActive, now, url, navs>>

\* The page stays open and idle for dt wall-clock periods; every fine timer
\* has fired before the first of them ends.
AdvanceTime(dt) ==
  /\ Stimulus
  /\ pc = "done" /\ pendingWaits = {}
  /\ now + dt <= MaxTime
  /\ now' = now + dt
  /\ UNCHANGED <<persistedVars, dom, url, nextSid, sdkVars, sent, produced,
                 loads, navs, probe>>

\* While the page is hidden (html.ab-loading: visibility hidden) no element
\* receives the visitor's clicks, submits or scrolls.
Interactive == isRevealed

\* a stimulus that runs SDK code and leaves the record m
Trigger(m) ==
  /\ Stimulus
  /\ Commit(m)
  /\ UNCHANGED <<frameVars, now, dom, url, navs>>

\* A handler run that writes nothing is a stuttering step of the page; only
\* the runs that write something count as stimuli.
Effective ==
  <<lsLastActive, trackedGoals, eventQueue, sent, produced>>' #
    <<lsLastActive, trackedGoals, eventQueue, sent, produced>>

\* handleGoalInteraction(e, type) for an event whose target matches sel
handleGoalInteraction(m, type, sel) ==
  forEachGoal(m, GoalsOf(m.config), 1,
    { g \in GoalSet(m.config) : g.type = type /\ g.selector = sel })

\* updateActivity() of handleGoalInteraction, skipped without configuration
updateActivity == IF config = NoConfig THEN lsLastActive ELSE now

Click(sel) ==
  /\ Interactive
  /\ Trigger(handleGoalInteraction(Cur, "CLICK", sel))
  /\ lsLastActive' = updateActivity
  /\ Effective

Submit(sel) ==
  /\ Interactive
  /\ Trigger(handleGoalInteraction(Cur, "FORM_SUBMIT", sel))
  /\ lsLastActive' = updateActivity
  /\ Effective

\* parseInt(goal.selector || "50", 10)
ParseInt(str) == IF str = "50" THEN 50 ELSE 0

\* the scroll listener installed by setupScrollGoals(), in its animation frame
Scroll(scrollPercent) ==
  /\ Interactive
  /\ goalsSetup
  /\ \E i \in DOMAIN GoalsOf(config) : GoalsOf(config)[i].type = "SCROLL"
  /\ Trigger(forEachGoal(Cur, GoalsOf(config), 1,
       { g \in GoalSet(config) : /\ g.type = "SCROLL"
                                  /\ scrollPercent >= ParseInt(g.selector) }))
  /\ UNCHANGED lsLastActive
  /\ Effective

\* the IntersectionObserver reports an observed element matching sel
Visible(sel) ==
  /\ Interactive
  /\ goalsSetup
  /\ sel \in observed
  /\ Trigger(forEachGoal(Cur, GoalsOf(config), 1,
       { g \in GoalSet(config) : /\ g.type = "ELEMENT_VISIBILITY"
                                  /\ g.selector = sel }))
  /\ UNCHANGED lsLastActive
  /\ Effective

\* the names the host page passes to trackEvent()
EventNames == {"purchase", "other"}

\* trackEvent() without its exposure check
trackEventUngated(m, eventName) ==
  LET exposedExperiments == getExposedExperiments(m)
      m1 == forEachGoal(m, GoalsOf(m.config), 1,
              { g \in GoalSet(m.config) : /\ g.type = "CUSTOM_EVENT"
                                           /\ g.eventName = eventName })
  IN  enqueueEvent(m1, "CUSTOM_EVENT", eventName, Null, exposedExperiments)

\* public trackEvent(eventName)
trackEvent(m, eventName) ==
  IF ~ hasAnyExposure(m) THEN m
  ELSE
    LET exposedExperiments == getExposedExperiments(m)
        m1 == forEachGoal(m, GoalsOf(m.config), 1,
                { g \in GoalSet(m.config) : /\ g.type = "CUSTOM_EVENT"
                                             /\ g.eventName = eventName })
    IN  enqueueEvent(m1, "CUSTOM_EVENT", eventName, Null, exposedExperiments)

TrackEvent(eventName) ==
  /\ Trigger(trackEvent(Cur, eventName))
  /\ UNCHANGED lsLastActive
  /\ Effective

\* handleUrlChange() resolving the session again, as the constructor does
NavigateResolving(u) ==
  /\ Stimulus
  /\ navs' = navs + 1
  /\ url' = u
  /\ LET newSession == sessionExpired(now)
         m == IF newSession
                THEN enqueueEvent(Cur, "SESSION_START", Null, Null, {})
                ELSE Cur
         sid == IF newSession THEN nextSid ELSE ssSid
         m1 == [m EXCEPT !.sessionId = sid]
         ctx == Ctx(config, u, now, dom, elapsed, navs + 1)
     IN  /\ Commit(checkPageviewGoals(processExperiments(m1, ctx), ctx))
         /\ sessionId' = sid /\ ssSid' = sid
         /\ nextSid' = IF newSession THEN nextSid + 1 ELSE nextSid
  /\ lsLastActive' = now
  /\ UNCHANGED <<cookieVid, lsVid, lsConfigCache, visitorId, loads, probe,
                 now, dom>>

\* handleUrlChange() checking the page-view goals before the experiments
NavigateGoalsFirst(u) ==
  /\ Stimulus
  /\ navs' = navs + 1
  /\ url' = u
  /\ LET ctx == Ctx(config, u, now, dom, elapsed, navs + 1)
     IN  Commit(processExperiments(checkPageviewGoals(Cur, ctx), ctx))
  /\ UNCHANGED <<frameVars, lsLastActive, now, dom>>

\* handleUrlChange() starting from empty dedup sets
NavigateReset(u) ==
  /\ Stimulus
  /\ navs' = navs + 1
  /\ url' = u
  /\ LET ctx == Ctx(config, u, now, dom, elapsed, navs + 1)
         m == [Cur EXCEPT !.activeExperiments = {}, !.trackedGoals = {}]
     IN  Commit(checkPageviewGoals(processExperiments(m, ctx), ctx))
  /\ UNCHANGED <<frameVars, lsLastActive, now, dom>>

\* pushState, replaceState or popstate to the URL u: handleUrlChange()
Navigate(u) ==
  /\ Stimulus
  /\ navs' = navs + 1
  /\ url' = u
  /\ LET ctx == Ctx(config, u, now, dom, elapsed, navs + 1)
     IN  Commit(checkPageviewGoals(processExperiments(Cur, ctx), ctx))
  /\ UNCHANGED <<frameVars, lsLastActive, now, dom>>

\* public flush(), visibilitychange to hidden, or pagehide
Flush ==
  /\ Stimulus
  /\ eventQueue # << >>
  /\ Commit(flushEvents(Cur))
  /\ UNCHANGED <<frameVars, lsLastActive, now, dom, url, navs>>

Next ==
  \/ \E u \in Urls, d \in SUBSET Selectors, fresh \in VisitorIds,
        graceful \in BOOLEAN : PageLoad(u, d, fresh, graceful)
  \/ FetchOk
  \/ \E c \in ConfigIds : BodyOk(c)
  \/ FetchFail
  \/ BodyFail
  \/ Tick
  \/ FailsafeFire
  \/ \E w \in pendingWaits : WaitTimeout(w)
  \/ RafFire
  \/ \E sel \in Selectors : DomInsert(sel)
  \/ \E dt \in 1..(MaxTime - StartTime) : AdvanceTime(dt)
  \/ \E sel \in {"btn"} : Click(sel)
  \/ \E sel \in {"form"} : Submit(sel)
  \/ \E p \in {40, 60} : Scroll(p)
  \/ \E sel \in Selectors : Visible(sel)
  \/ \E name \in EventNames : TrackEvent(name)
  \/ \E u \in Urls : Navigate(u)
  \/ Flush

Spec == Init /\ [][Next]_vars

\* -------------------------------------------------------------- properties
\* the envelopes of one type a step passes to eventQueue.push
NewEnvelopes(type) ==
  { i \in DOMAIN produced' :
      i > Len(produced) /\ produced'[i].eventType = type }

\* the exposures cleanupExpiredExposures() would keep at time t
NonExpired(exps, t) ==
  { e \in DOMAIN exps : t - exps[e].exposedAt <= attributionWindowDays }

AllGoals ==
  { Configs[c].goals[i] : c \in ConfigIds, i \in {1, 2, 3} }

goalOf(env) == CHOOSE g \in AllGoals : g.id = env.id

\* a step in which the initial pass of a page load evaluates the experiments
InitialPass ==
  /\ config' # NoConfig
  /\ loads' # loads \/ pc \in {"fetch", "body"}
  /\ pc' \notin {"fetch", "body"}
  /\ navs' = 0

experimentsOf(cfg) ==
  IF cfg = NoConfig THEN {}
  ELSE { Snapshots[cfg].experiments[i] :
           i \in DOMAIN Snapshots[cfg].experiments }

\* C1: whenever a goal trigger enqueues a GOAL_CONVERSION envelope, the
\* visitor has at least one non-expired exposure at that moment (an exposure
\* whose age does not exceed the attribution window).
C1_AttributionGate ==
  [][ NewEnvelopes("GOAL_CONVERSION") # {}
        => NonExpired(exposures', now') # {} ]_vars

\* C2: a GOAL_CONVERSION envelope of a goal that lists experiment ids
\* attributes exactly the visitor's exposed experiments that the goal
\* lists, and at least one; and such a goal is marked as tracked for the
\* session only in a step that enqueues its envelope.
C2_RestrictedAttribution ==
  [][ /\ \A i \in NewEnvelopes("GOAL_CONVERSION") :
           LET env == produced'[i]
               goal == goalOf(env)
               listed == DOMAIN exposures' \cap goal.experimentIds
           IN  goal.experimentIds # {} =>
                 /\ listed # {}
                 /\ env.attributedExperiments =
                      { [experimentId |-> e,
                         variantId |-> exposures'[e].variantId] : e \in listed }
      /\ \A goal \in AllGoals :
           /\ goal.experimentIds # {}
           /\ <<goal.id, sessionId'>> \in trackedGoals'
           /\ <<goal.id, sessionId'>> \notin trackedGoals \/ loads' # loads
           => /\ DOMAIN exposures' \cap goal.experimentIds # {}
              /\ \E i \in NewEnvelopes("GOAL_CONVERSION") :
                   produced'[i].id = goal.id ]_vars

\* a conversion of the restricted goal g3 was enqueued for a visitor exposed
\* to two experiments, and attributes only the one the goal lists
C2_Witness ==
  \E i \in DOMAIN produced :
    /\ produced[i].eventType = "GOAL_CONVERSION"
    /\ produced[i].id = "g3"
    /\ Cardinality(produced[i].attributedExperiments) = 1
    /\ DOMAIN exposures = {"e1", "e2"}

\* C3: no two GOAL_CONVERSION envelopes carry the same goal id and the same
\* session id, whatever triggers, navigations and reloads happen in the
\* session.
C3_ConversionDedup ==
  \A i, j \in DOMAIN produced :
    /\ i < j
    /\ produced[i].eventType = "GOAL_CONVERSION"
    /\ produced[j].eventType = "GOAL_CONVERSION"
    /\ produced[i].id = produced[j].id
    => produced[i].sessionId # produced[j].sessionId

\* the session of the page already holds an EXPERIMENT_VIEW envelope of e
ViewedInSession(e, sid) ==
  \E i \in DOMAIN produced :
    /\ produced[i].eventType = "EXPERIMENT_VIEW"
    /\ produced[i].id = e
    /\ produced[i].sessionId = sid

\* C4: when the initial pass of a reload in the same session evaluates an
\* experiment for which the visitor holds an assignment and an exposure
\* with count 1, the assignment is left as it is, the exposure count
\* becomes 2 and no EXPERIMENT_VIEW envelope of that experiment is enqueued.
C4_ReloadSameSession ==
  [][ \A exp \in experimentsOf(config') :
        /\ InitialPass
        /\ Targeted(exp, url')
        /\ exp.id \in DOMAIN lsAssignments
        /\ exp.id \in DOMAIN lsExposures
        /\ lsExposures[exp.id].exposureCount = 1
        /\ exp.id \in DOMAIN lsExposures'
        /\ ViewedInSession(exp.id, sessionId')
        => /\ lsAssignments' = lsAssignments
           /\ lsExposures'[exp.id].exposureCount = 2
           /\ \A i \in NewEnvelopes("EXPERIMENT_VIEW") :
                produced'[i].id # exp.id ]_vars

\* C5: at the end of the initialization of the first page load of a visitor
\* without persisted state, every RUNNING experiment with allocation 100
\* that matches the URL and the audience has an assignment to one of its
\* variants, an exposure record with count 1, and exactly one
\* EXPERIMENT_VIEW envelope.
C5_ScenarioA ==
  loads = 1 /\ navs = 0 /\ pc \in {"raf", "done"} =>
    \A exp \in experimentsOf(config) :
      Targeted(exp, url) /\ exp.trafficAllocation = 100 =>
        /\ exp.id \in DOMAIN assignments
        /\ exp.id \in DOMAIN lsAssignments
        /\ find(exp.variants, lsAssignments[exp.id].variantId) # 0
        /\ exp.id \in DOMAIN exposures
        /\ exposures[exp.id].exposureCount = 1
        /\ lsExposures = exposures
        /\ Cardinality({ i \in DOMAIN produced :
                           /\ produced[i].eventType = "EXPERIMENT_VIEW"
                           /\ produced[i].id = exp.id }) = 1

\* the first page load ended its initialization on a URL that e1, with
\* allocation 100, matches
C5_Witness ==
  /\ loads = 1 /\ navs = 0 /\ pc = "done" /\ config = 1 /\ url = "/a"
  /\ "e1" \in DOMAIN exposures

\* C6: once more than antiFlickerTimeout has elapsed since construction, the
\* page is revealed.
C6_FailsafeReveal ==
  pc # "none" /\ elapsed > antiFlickerTimeout => isRevealed

\* C7: while the page has no configuration (the fetch is pending, or it
\* failed with no cached snapshot), the page is revealed as soon as init()
\* has settled and in any case once the failsafe timeout has passed, no
\* change is applied or waited for, the assignments are left as they are,
\* no exposure is created or counted, and no EXPERIMENT_VIEW or
\* GOAL_CONVERSION envelope is enqueued.
C7_ScenarioD ==
  [][ config' = NoConfig /\ pc' # "none" =>
        /\ pc' \in {"raf", "done"} => isRevealed'
        /\ elapsed' > antiFlickerTimeout => isRevealed'
        /\ applied' = {} /\ pendingWaits' = {}
        /\ lsAssignments' = lsAssignments
        /\ assignments' = lsAssignments
        /\ \A e \in DOMAIN lsExposures' :
             e \in DOMAIN lsExposures /\ lsExposures'[e] = lsExposures[e]
        /\ exposures' = lsExposures'
        /\ NewEnvelopes("EXPERIMENT_VIEW") = {}
        /\ NewEnvelopes("GOAL_CONVERSION") = {} ]_vars

\* the fetch failed with no cached snapshot, init() ended, and the visitor
\* navigated on the page afterwards
C7_Witness ==
  /\ pc = "done" /\ config = NoConfig /\ lsConfigCache = NoCache
  /\ navs = 1 /\ isRevealed

\* C8: on a revealed page every step leaves the page revealed and schedules
\* no further removal of the style tag, until the next page load.
C8_RevealIdempotent ==
  [][ isRevealed /\ loads' = loads =>
        isRevealed' /\ styleRemovals' = styleRemovals ]_vars

\* the failsafe revealed the page, and the animation-frame callback called
\* revealPage() again
C8_Witness ==
  pc = "done" /\ failsafe = "fired" /\ isRevealed /\ styleRemovals = 1

\* C9: every step leaves every persisted assignment as it is, the SDK
\* object of a page holds it unchanged, and every EXPERIMENT_VIEW envelope
\* carries the persisted variant.
C9_AssignmentStability ==
  [][ /\ \A e \in DOMAIN lsAssignments :
           /\ e \in DOMAIN lsAssignments'
           /\ lsAssignments'[e] = lsAssignments[e]
           /\ e \in DOMAIN assignments'
           /\ assignments'[e] = lsAssignments[e]
      /\ \A i \in NewEnvelopes("EXPERIMENT_VIEW") :
           /\ produced'[i].id \in DOMAIN lsAssignments'
           /\ produced'[i].variantId =
                lsAssignments'[produced'[i].id].variantId ]_vars

\* a second page load evaluated an experiment whose stored variant is not
\* the one bucket() returns for the weights of the current configuration
C9_Witness ==
  /\ loads = 2
  /\ \E exp \in experimentsOf(config) :
       /\ exp.id \in activeExperiments
       /\ exp.id \in DOMAIN lsAssignments
       /\ bucket(visitorId, exp.id, exp.variants) #
            lsAssignments[exp.id].variantId

\* ------------------------------------------------------------------ faults
\* The environment with faults: the configuration service serves a snapshot
\* with malformed entries or a body that is JSON but no snapshot, DOM
\* operations throw, and deliveries to the ingest URL fail.

\* the body parses as JSON null: this.config = null, and the cache is written
BodyNotConfig ==
  /\ pc = "body"
  /\ lsConfigCache' = [ts |-> now, data |-> NoConfig]
  /\ Settle(NoConfig)

\* the batch of the oldest POST of the page that has not settled
OldestInFlight == sent[Len(sent) - inFlight + 1]

\* the catch handler of the fetch of flushEvents(), putting the batch back
flushErrorRequeue(m, batch) == [m EXCEPT !.eventQueue = batch \o @]

\* the catch handler of the fetch of flushEvents(): it logs
flushError(m, batch) == m

\* the POST of a batch is answered
SendOk ==
  /\ inFlight > 0
  /\ Commit([Cur EXCEPT !.inFlight = @ - 1])
  /\ UNCHANGED <<frameVars, lsLastActive, now, dom, url, navs, stimuli>>

\* the POST of a batch fails
SendFail ==
  /\ inFlight > 0
  /\ Commit(flushError([Cur EXCEPT !.inFlight = @ - 1], OldestInFlight))
  /\ UNCHANGED <<frameVars, lsLastActive, now, dom, url, navs, stimuli>>

\* the snapshots served in this environment: the second well-formed one
\* and the one with faults
FaultyConfigIds == {Len(Configs), FaultyConfigId}

NextFaulty ==
  \/ \E u \in Urls, d \in SUBSET Selectors, fresh \in VisitorIds,
        graceful \in BOOLEAN : PageLoad(u, d, fresh, graceful)
  \/ FetchOk
  \/ \E c \in FaultyConfigIds : BodyOk(c)
  \/ BodyNotConfig
  \/ FetchFail
  \/ BodyFail
  \/ Tick
  \/ FailsafeFire
  \/ \E w \in pendingWaits : WaitTimeout(w)
  \/ RafFire
  \/ \E sel \in Selectors : DomInsert(sel)
  \/ \E dt \in 1..(MaxTime - StartTime) : AdvanceTime(dt)
  \/ \E sel \in {"btn"} : Click(sel)
  \/ \E sel \in {"form"} : Submit(sel)
  \/ \E p \in {40, 60} : Scroll(p)
  \/ \E sel \in Selectors : Visible(sel)
  \/ \E name \in EventNames : TrackEvent(name)
  \/ \E u \in Urls : Navigate(u)
  \/ Flush
  \/ SendOk
  \/ SendFail

SpecFaulty == Init /\ [][NextFaulty]_vars

\* ---------------------------------------------------------------- identity
\* The environment in which the tiers of the visitor id can be lost and the
\* tab can move to a sibling subdomain.

\* window.location.hostname, as its labels
Hostname == <<"shop", "example", "com">>

\* host.split(separator): the labels when the separator is the dot; a
\* separator that does not occur in a hostname leaves it in one part
Split(host, separator) == IF separator = "." THEN host ELSE << host >>

\* CookieUtils.set(): the cookie is written for the registrable domain when
\* the hostname splits in two parts or more, else for the host alone
CookieScope(host) ==
  LET parts == Split(host, ". ")
  IN  IF Len(parts) >= 2 THEN "domain" ELSE "host"

\* The tab leaves the page for a subdomain of the same site that was not
\* visited before: the page is torn down (pagehide flushes the queue), the
\* per-origin stores of the new origin are empty, and the cookie is there
\* if it was written for the domain.
SubdomainChange ==
  /\ Stimulus
  /\ Commit([flushEvents(Cur) EXCEPT
               !.pc = "none", !.failsafe = "none", !.pendingWaits = {},
               !.lsAssignments = EmptyMap, !.lsExposures = EmptyMap])
  /\ cookieVid' = IF CookieScope(Hostname) = "domain" THEN cookieVid ELSE Null
  /\ lsVid' = Null /\ ssSid' = Undefined /\ lsLastActive' = 0
  /\ lsConfigCache' = NoCache
  /\ UNCHANGED <<now, dom, url, nextSid, visitorId, sessionId, loads, navs,
                 probe>>

\* one tier loses the visitor id: the cookie expires or is deleted, or the
\* localStorage entry is removed
TierLost(tier) ==
  /\ Stimulus
  /\ IF tier = "cookie"
       THEN cookieVid # Null /\ cookieVid' = Null /\ lsVid' = lsVid
       ELSE lsVid # Null /\ lsVid' = Null /\ cookieVid' = cookieVid
  /\ UNCHANGED <<ssSid, lsLastActive, lsAssignments, lsExposures,
                 lsConfigCache, envVars, sdkVars, sent, produced, loads, navs,
                 probe>>

NextIdentity ==
  \/ Next
  \/ SubdomainChange
  \/ \E tier \in {"cookie", "localStorage"} : TierLost(tier)

SpecIdentity == Init /\ [][NextIdentity]_vars

\* ------------------------------------------------- the sampling gate alone
\* isUserInSample() evaluated twice for one visitor and one experiment, with
\* the trafficAllocation values of two configuration snapshots.
Allocations == 0 .. 100

InitSampling ==
  /\ InitSdk
  /\ probe \in { [visitorId |-> v, experimentId |-> e,
                   first |-> NoCall, second |-> NoCall] :
                    v \in VisitorIds, e \in ExpIds }

Sampled(allocation) ==
  [allocation |-> allocation,
   admitted |-> isUserInSample(probe.visitorId, probe.experimentId, allocation)]

SampleFirst(allocation) ==
  /\ probe.first = NoCall
  /\ probe' = [probe EXCEPT !.first = Sampled(allocation)]
  /\ UNCHANGED <<persistedVars, envVars, sdkVars, sent, produced, loads, navs,
                 stimuli>>

SampleSecond(allocation) ==
  /\ probe.first # NoCall /\ probe.second = NoCall
  /\ probe' = [probe EXCEPT !.second = Sampled(allocation)]
  /\ UNCHANGED <<persistedVars, envVars, sdkVars, sent, produced, loads, navs,
                 stimuli>>

NextSampling ==
  \/ \E allocation \in Allocations : SampleFirst(allocation)
  \/ \E allocation \in Allocations : SampleSecond(allocation)

SpecSampling == InitSampling /\ [][NextSampling]_vars

\* ------------------------------------------------- loss of a persisted slot
\* One of the localStorage entries of the ledger is lost while the other
\* stays: the entry is removed by the visitor, the browser or another
\* script, or its content no longer parses (safeJSONParse falls back to {}).
\* The SDK object of the open page keeps its in-memory copy.
SlotLost(slot) ==
  /\ IF slot = "assignments"
       THEN /\ lsAssignments # EmptyMap
            /\ lsAssignments' = EmptyMap /\ lsExposures' = lsExposures
       ELSE /\ lsExposures # EmptyMap
            /\ lsExposures' = EmptyMap /\ lsAssignments' = lsAssignments
  /\ UNCHANGED <<cookieVid, lsVid, ssSid, lsLastActive, lsConfigCache,
                 envVars, sdkVars, historyVars>>

NextSlots ==
  \/ Next
  \/ \E slot \in {"assignments", "exposures"} : SlotLost(slot)

SpecSlots == Init /\ [][NextSlots]_vars

\* ------------------------------------------ the ingestion of a goal conversion
\* The stream consumer handles one GOAL_CONVERSION envelope: processEvent()
\* and the loop of handleGoalConversion() over the attributed experiments,
\* against a database that accepts every statement.
Projects == {"p1"}

\* evt.value: absent, zero or an amount
NoValue == [present |-> FALSE, n |-> 0]
EnvelopeValues == {NoValue, [present |-> TRUE, n |-> 0],
                   [present |-> TRUE, n |-> 5]}

\* entries the SDK puts in attributedExperiments
Attributions ==
  { [experimentId |-> "e1", variantId |-> "c"],
    [experimentId |-> "e1", variantId |-> "t"],
    [experimentId |-> "e2", variantId |-> "u"] }

\* evt.attributedExperiments: absent, empty, or entries of distinct experiments
NoAttribution == [present |-> FALSE, list |-> << >>]
AttributionLists ==
  {NoAttribution}
    \cup { [present |-> TRUE, list |-> l] :
             l \in {<< >>}
                     \cup { <<a>> : a \in Attributions }
                     \cup { l2 \in Attributions \X Attributions :
                              l2[1].experimentId # l2[2].experimentId } }

GoalEnvelopes ==
  [ projectId : Projects, visitorId : {"v1"}, eventType : {"GOAL_CONVERSION"},
    goalId : {Null, "g1"}, attributedExperiments : AttributionLists,
    value : EnvelopeValues ]

IngestVariants == { a.variantId : a \in Attributions }

EmptyDatabase ==
  [ visitors |-> {}, goalConversions |-> << >>,
    variantConversions |-> [v \in IngestVariants |-> 0],
    totalConversions |-> [e \in ExpIds |-> 0],
    goalCount |-> [e \in ExpIds |-> 0],
    dailyConversions |-> [e \in ExpIds |-> 0],
    dailyRevenue |-> [e \in ExpIds |-> 0],
    liveLogs |-> 0 ]

\* db.visitor.upsert: one row per (projectId, visitorId)
upsertVisitor(db, evt) ==
  [db EXCEPT !.visitors = @ \cup {<<evt.projectId, evt.visitorId>>}]

\* the value of each conversion row, had the amount been split
conversionValueSplit(evt) ==
  IF evt.value.present /\ evt.value.n # 0
    THEN [present |-> TRUE,
          n |-> evt.value.n \div Len(evt.attributedExperiments.list)]
    ELSE NoValue

\* value: value || null
conversionValue(evt) ==
  IF evt.value.present /\ evt.value.n # 0 THEN evt.value ELSE NoValue

\* updateDailyStat(db, experimentId, "conversions", value)
updateDailyStat(db, experimentId, revenue) ==
  [db EXCEPT !.dailyConversions[experimentId] = @ + 1,
             !.dailyRevenue[experimentId] =
                @ + (IF revenue.present THEN revenue.n ELSE 0)]

\* the guard of handleGoalConversion()
goalGuard(evt) ==
  /\ evt.goalId # Null
  /\ evt.attributedExperiments.present
  /\ evt.attributedExperiments.list # << >>

\* the body of the loop of handleGoalConversion() for one entry
goalIteration(db, evt, exp) ==
  LET created ==
        [db EXCEPT
           !.goalConversions =
              Append(@, [goalId |-> evt.goalId,
                         experimentId |-> exp.experimentId,
                         variantId |-> exp.variantId,
                         visitorId |-> <<evt.projectId, evt.visitorId>>,
                         value |-> conversionValue(evt)]),
           !.variantConversions[exp.variantId] = @ + 1,
           !.totalConversions[exp.experimentId] = @ + 1,
           !.goalCount[exp.experimentId] = @ + 1]
      counted == updateDailyStat(created, exp.experimentId, evt.value)
  IN  [counted EXCEPT !.liveLogs = @ + 1]

InitConversion ==
  /\ InitSdk
  /\ probe \in { [evt |-> evt, pc |-> "received", i |-> 1,
                   db |-> EmptyDatabase] : evt \in GoalEnvelopes }

\* processEvent() up to the loop of handleGoalConversion()
ProcessEvent ==
  /\ probe.pc = "received"
  /\ probe' = [probe EXCEPT
                 !.db = upsertVisitor(@, probe.evt),
                 !.pc = IF goalGuard(probe.evt) THEN "loop" ELSE "done"]
  /\ UNCHANGED <<persistedVars, envVars, sdkVars, sent, produced, loads, navs,
                 stimuli>>

\* one iteration of the loop
GoalIteration ==
  /\ probe.pc = "loop"
  /\ probe' = [probe EXCEPT
                 !.db = goalIteration(@, probe.evt,
                                      probe.evt.attributedExperiments.list[probe.i]),
                 !.i = @ + 1,
                 !.pc = IF probe.i = Len(probe.evt.attributedExperiments.list)
                          THEN "done" ELSE "loop"]
  /\ UNCHANGED <<persistedVars, envVars, sdkVars, sent, produced, loads, navs,
                 stimuli>>

NextConversion == ProcessEvent \/ GoalIteration

SpecConversion == InitConversion /\ [][NextConversion]_vars

\* ------------------------------------------ the ingestion of experiment views
\* Two invocations of the stream consumer run concurrently against one
\* database, each over its own batch of EXPERIMENT_VIEW envelopes; every
\* awaited database statement is a step of its own. The database enforces
\* the unique keys the statements name: (projectId, visitorId) on visitors
\* and (visitorId, experimentId) on variant assignments.
Handlers == {1, 2}

\* the envelopes of visitor v1 for e1, in two projects, with either variant
\* or without a variant id
ViewEnvelopes ==
  [ projectId : {"p1", "p2"}, visitorId : {"v1"},
    eventType : {"EXPERIMENT_VIEW"}, experimentId : {"e1"}, variantId : {"c"} ]
  \cup
  [ projectId : {"p1"}, visitorId : {"v1"},
    eventType : {"EXPERIMENT_VIEW"}, experimentId : {"e1"},
    variantId : {"t", Null} ]

\* event.Records of the two invocations
ViewBatches ==
  [ Handlers -> ViewEnvelopes \X ViewEnvelopes ]

ViewDatabase ==
  [ visitors |-> {}, assignments |-> {},
    variantVisitors |-> [v \in {"c", "t"} |-> 0],
    totalVisitors |-> [e \in {"e1"} |-> 0],
    impressions |-> [e \in {"e1"} |-> 0],
    events |-> 0 ]

\* the row of the visitor of an envelope
visitorRow(evt) == <<evt.projectId, evt.visitorId>>

\* a database without the unique key on variant assignments
uniqueViolationNever(db, visitorDbId, experimentId) == FALSE

\* db.variantAssignment.create rejects a second row for the key
uniqueViolation(db, visitorDbId, experimentId) ==
  \E a \in db.assignments :
    a.visitorId = visitorDbId /\ a.experimentId = experimentId

InitViews ==
  /\ InitSdk
  /\ probe \in { [db |-> ViewDatabase,
                   handlers |-> [h \in Handlers |->
                                   [batch |-> b[h], k |-> 1, pc |-> "next",
                                    saw |-> FALSE]]] :
                    b \in ViewBatches }

ViewFrame ==
  UNCHANGED <<persistedVars, envVars, sdkVars, sent, produced, loads, navs,
              stimuli>>

\* the envelope handler h is processing
evtOf(h) == probe.handlers[h].batch[probe.handlers[h].k]

\* upsertVisitor(): the database looks the visitor up
UpsertRead(h) ==
  /\ probe.handlers[h].pc = "next"
  /\ probe.handlers[h].k <= Len(probe.handlers[h].batch)
  /\ probe' = [probe EXCEPT
                 !.handlers[h].saw = visitorRow(evtOf(h)) \in probe.db.visitors,
                 !.handlers[h].pc = "upsert"]
  /\ ViewFrame

\* upsertVisitor(): the row is updated, or created; a creation that meets a
\* row created meanwhile fails, and processEvent() drops the event
UpsertWrite(h) ==
  /\ probe.handlers[h].pc = "upsert"
  /\ LET evt == evtOf(h)
         conflict == /\ ~ probe.handlers[h].saw
                     /\ visitorRow(evt) \in probe.db.visitors
     IN  probe' =
           IF conflict \/ evt.variantId = Null
             THEN [probe EXCEPT
                     !.db = IF conflict THEN @ ELSE upsertVisitor(@, evt),
                     !.handlers[h].k = @ + 1,
                     !.handlers[h].pc = "next"]
             ELSE [probe EXCEPT !.db = upsertVisitor(@, evt),
                                !.handlers[h].pc = "find"]
  /\ ViewFrame

\* db.variantAssignment.findUnique
FindAssignment(h) ==
  /\ probe.handlers[h].pc = "find"
  /\ LET evt == evtOf(h)
         existingAssignment ==
           \E a \in probe.db.assignments :
             /\ a.visitorId = visitorRow(evt)
             /\ a.experimentId = evt.experimentId
     IN  probe' = [probe EXCEPT
                     !.handlers[h].pc =
                        IF existingAssignment THEN "event" ELSE "create"]
  /\ ViewFrame

\* db.variantAssignment.create: a violation of the unique key throws into
\* the catch block of handleExperimentView()
CreateAssignment(h) ==
  /\ probe.handlers[h].pc = "create"
  /\ LET evt == evtOf(h)
     IN  probe' =
           IF uniqueViolation(probe.db, visitorRow(evt), evt.experimentId)
             THEN [probe EXCEPT !.handlers[h].k = @ + 1,
                                !.handlers[h].pc = "next"]
             ELSE [probe EXCEPT
                     !.db.assignments =
                        @ \cup {[visitorId |-> visitorRow(evt),
                                 experimentId |-> evt.experimentId,
                                 variantId |-> evt.variantId]},
                     !.handlers[h].pc = "variant"]
  /\ ViewFrame

\* db.variant.update: visitors increment
IncrementVariant(h) ==
  /\ probe.handlers[h].pc = "variant"
  /\ probe' = [probe EXCEPT
                 !.db.variantVisitors[evtOf(h).variantId] = @ + 1,
                 !.handlers[h].pc = "experiment"]
  /\ ViewFrame

\* db.experiment.update: totalVisitors increment
IncrementExperiment(h) ==
  /\ probe.handlers[h].pc = "experiment"
  /\ probe' = [probe EXCEPT
                 !.db.totalVisitors[evtOf(h).experimentId] = @ + 1,
                 !.handlers[h].pc = "daily"]
  /\ ViewFrame

\* updateDailyStat(db, experimentId, "impressions")
DailyImpression(h) ==
  /\ probe.handlers[h].pc = "daily"
  /\ probe' = [probe EXCEPT
                 !.db.impressions[evtOf(h).experimentId] = @ + 1,
                 !.handlers[h].pc = "event"]
  /\ ViewFrame

\* db.event.create and db.liveLog.create, then the next event of the batch
LogView(h) ==
  /\ probe.handlers[h].pc = "event"
  /\ probe' = [probe EXCEPT !.db.events = @ + 1,
                            !.handlers[h].k = @ + 1,
                            !.handlers[h].pc = "next"]
  /\ ViewFrame

NextViews ==
  \E h \in Handlers :
    \/ UpsertRead(h)
    \/ UpsertWrite(h)
    \/ FindAssignment(h)
    \/ CreateAssignment(h)
    \/ IncrementVariant(h)
    \/ IncrementExperiment(h)
    \/ DailyImpression(h)
    \/ LogView(h)

SpecViews == InitViews /\ [][NextViews]_vars

\* -------------------------------------------------- the visitor id of four tabs
\* resolveVisitorId() of the constructor in four tabs of one browser that share
\* the cookie and localStorage: every storage access is a step of its own. Tabs
\* 1 and 2 are opened at any time, the late tabs 3 and 4 once both have their
\* identity.
Tabs == {1, 2, 3, 4}
LateTabs == {3, 4}

\* generateUUID() in tab t
TabUUID(t) == <<"v1", "v2", "v3", "v4">>[t]

\* !vid, taken as true whatever was read
missingAlways(vid) == TRUE

\* !vid
missing(vid) == vid = Null

InitTabs ==
  /\ InitSdk
  /\ probe = [cookieBy |-> 0, lsBy |-> 0,
              tabs |-> [t \in Tabs |-> [pc |-> "closed", vid |-> Null]]]

TabFrame ==
  UNCHANGED <<ssSid, lsLastActive, lsAssignments, lsExposures, lsConfigCache,
              envVars, sdkVars, sent, produced, loads, navs, stimuli>>

\* the page of tab t constructs the SDK object
TabOpen(t) ==
  /\ probe.tabs[t].pc = "closed"
  /\ t \in LateTabs => probe.tabs[1].pc = "done" /\ probe.tabs[2].pc = "done"
  /\ probe' = [probe EXCEPT !.tabs[t].pc = "cookie"]
  /\ UNCHANGED <<cookieVid, lsVid>>
  /\ TabFrame

\* let vid = CookieUtils.get(VISITOR_ID)
TabReadCookie(t) ==
  /\ probe.tabs[t].pc = "cookie"
  /\ probe' = [probe EXCEPT
                 !.tabs[t].vid = cookieVid,
                 !.tabs[t].pc = IF missing(cookieVid) THEN "ls" ELSE "setCookie"]
  /\ UNCHANGED <<cookieVid, lsVid>>
  /\ TabFrame

\* if (!vid) vid = LS.getItem(VISITOR_ID); if (!vid) vid = generateUUID()
TabReadLs(t) ==
  /\ probe.tabs[t].pc = "ls"
  /\ probe' = [probe EXCEPT
                 !.tabs[t].vid = IF missing(lsVid) THEN TabUUID(t) ELSE lsVid,
                 !.tabs[t].pc = "setCookie"]
  /\ UNCHANGED <<cookieVid, lsVid>>
  /\ TabFrame

\* CookieUtils.set(VISITOR_ID, vid, 365)
TabSetCookie(t) ==
  /\ probe.tabs[t].pc = "setCookie"
  /\ cookieVid' = probe.tabs[t].vid
  /\ probe' = [probe EXCEPT !.cookieBy = t, !.tabs[t].pc = "setLs"]
  /\ UNCHANGED lsVid
  /\ TabFrame

\* LS.setItem(VISITOR_ID, vid); return vid
TabSetLs(t) ==
  /\ probe.tabs[t].pc = "setLs"
  /\ lsVid' = probe.tabs[t].vid
  /\ probe' = [probe EXCEPT !.lsBy = t, !.tabs[t].pc = "done"]
  /\ UNCHANGED cookieVid
  /\ TabFrame

NextTabs ==
  \E t \in Tabs :
    \/ TabOpen(t)
    \/ TabReadCookie(t)
    \/ TabReadLs(t)
    \/ TabSetCookie(t)
    \/ TabSetLs(t)

SpecTabs == InitTabs /\ [][NextTabs]_vars

\* ------------------------------------------------------ the element wait alone
\* applyChanges() for a variant with two changes: the waitForElement() call
\* of each change with its observer and its timer, while the host page
\* inserts and removes elements.
WaitSelectors == {"s1", "s2"}

\* change.waitForSelector: no wait, and the default
WaitTimeouts == {0, 50}

querySelectorAll(sel, d) == IF sel \in d THEN Elements(sel) ELSE {}

\* done(elements) without the test of its resolved flag
doneUnguarded(w, elements, by) ==
  [w EXCEPT !.resolved = TRUE, !.observing = FALSE,
            !.resolutions = Append(@, [elements |-> elements, by |-> by])]

\* done(elements); by names the caller, the observer or the timer
done(w, elements, by) ==
  IF w.resolved THEN w
  ELSE [w EXCEPT !.resolved = TRUE, !.observing = FALSE,
                 !.resolutions = Append(@, [elements |-> elements, by |-> by])]

\* the executor of the promise waitForElement() returns
waitForElement(sel, timeout, d) ==
  LET els == querySelectorAll(sel, d)
      settled == [selector |-> sel, timeout |-> timeout, resolved |-> TRUE,
                  observing |-> FALSE, timer |-> FALSE,
                  resolutions |-> << [elements |-> els, by |-> "call"] >>]
  IN  IF els # {} THEN settled
      ELSE IF timeout <= 0 THEN settled
      ELSE [selector |-> sel, timeout |-> timeout, resolved |-> FALSE,
            observing |-> TRUE, timer |-> TRUE, resolutions |-> << >>]

\* the MutationObserver callback of a wait
observerCallback(w, d) ==
  LET nodes == querySelectorAll(w.selector, d)
  IN  IF w.observing /\ nodes # {} THEN done(w, nodes, "observer") ELSE w

\* the setTimeout callback of a wait
timerCallback(w, d) ==
  done([w EXCEPT !.timer = FALSE], querySelectorAll(w.selector, d), "timer")

InitWait ==
  /\ InitSdk
  /\ probe \in { [called |-> FALSE, changes |-> <<c1, c2>>, dom |-> d,
                   waits |-> << >>] :
                    c1 \in WaitSelectors \X WaitTimeouts,
                    c2 \in WaitSelectors \X WaitTimeouts,
                    d \in SUBSET WaitSelectors }

\* applyChanges(changes): changes.map(change => waitForElement(...))
ApplyChangesCall ==
  /\ ~ probe.called
  /\ probe' = [probe EXCEPT
                 !.called = TRUE,
                 !.waits = [i \in DOMAIN probe.changes |->
                              waitForElement(probe.changes[i][1],
                                             probe.changes[i][2], probe.dom)]]
  /\ UNCHANGED <<persistedVars, envVars, sdkVars, sent, produced, loads, navs,
                 stimuli>>

\* the host page inserts or removes the elements matching sel; the observers
\* connected at that moment are called
DomMutation(sel) ==
  /\ probe.called
  /\ LET d == IF sel \in probe.dom THEN probe.dom \ {sel}
                                    ELSE probe.dom \cup {sel}
     IN  probe' = [probe EXCEPT
                     !.dom = d,
                     !.waits = [i \in DOMAIN @ |-> observerCallback(@[i], d)]]
  /\ UNCHANGED <<persistedVars, envVars, sdkVars, sent, produced, loads, navs,
                 stimuli>>

\* the timer of the wait of change i fires
TimerFire(i) ==
  /\ probe.called
  /\ probe.waits[i].timer
  /\ probe' = [probe EXCEPT !.waits[i] = timerCallback(@, probe.dom)]
  /\ UNCHANGED <<persistedVars, envVars, sdkVars, sent, produced, loads, navs,
                 stimuli>>

NextWait ==
  \/ ApplyChangesCall
  \/ \E sel \in WaitSelectors : DomMutation(sel)
  \/ \E i \in {1, 2} : TimerFire(i)

SpecWait == InitWait /\ [][NextWait]_vars

\* ---------------------------------------------- the audience evaluation alone
\* checkAudiences() evaluated for a list of predicates on a URL of the host
\* page, whose query string, cookies and globals hold the values of some
\* keys and not of others.
Operators ==
  {"IS", "IS_NOT", "CONTAINS", "NOT_CONTAINS", "MATCHES_REGEX",
   "GREATER_THAN", "LESS_THAN"}

\* aud.value: strings equal to, part of and apart from the observed values
AudienceValues == {"x", "xy", "2"}

\* a key the page holds a value for and a key it holds none for
KeysOf(type) ==
  CASE type = "QUERY_PARAM" -> {"p", "zz"}
    [] type = "COOKIE" -> {"c", "zz"}
    [] type = "JS_VAR" -> {"n", "zz"}
    [] OTHER -> {Null}

Predicates ==
  UNION { { Audience(type, key, op, val) :
              key \in KeysOf(type), op \in Operators, val \in AudienceValues } :
            type \in {"DEVICE", "QUERY_PARAM", "COOKIE", "JS_VAR"} }

AudienceLists ==
  { <<a>> : a \in Predicates } \cup
  { <<a, b>> : a \in Predicates, b \in Predicates }

InitAudience ==
  /\ InitSdk
  /\ probe \in { [audiences |-> as, url |-> u, called |-> FALSE,
                   result |-> FALSE] :
                    as \in AudienceLists, u \in Urls }

AudienceCall ==
  /\ ~ probe.called
  /\ probe' = [probe EXCEPT
                 !.called = TRUE,
                 !.result = checkAudiences(probe.audiences, probe.url)]
  /\ UNCHANGED <<persistedVars, envVars, sdkVars, sent, produced, loads, navs,
                 stimuli>>

NextAudience == AudienceCall

SpecAudience == InitAudience /\ [][NextAudience]_vars

\* ------------------------------------------------------- the bucketing alone
\* bucket() evaluated for a visitor, an experiment and a list of variants
\* whose weights need not sum to 100.
VariantIds == <<"c", "t", "u">>

\* trafficWeight values: around the bucketing hashes of the visitors (7, 8,
\* 68, 69), so that cumulative weights fall below, on and above them
BucketWeights == {0, 7, 8, 31, 61, 69}

WeightLists ==
  UNION { [1 .. n -> BucketWeights] : n \in 1 .. Len(VariantIds) }

VariantsOf(weights) ==
  [i \in DOMAIN weights |-> Variant(VariantIds[i], i = 1, weights[i], << >>)]

InitBucket ==
  /\ InitSdk
  /\ probe \in { [visitorId |-> v, experimentId |-> e,
                   variants |-> VariantsOf(ws), result |-> Null] :
                    v \in VisitorIds, e \in ExpIds, ws \in WeightLists }

BucketCall ==
  /\ probe.result = Null
  /\ probe' = [probe EXCEPT
                 !.result = bucket(probe.visitorId, probe.experimentId,
                                   probe.variants)]
  /\ UNCHANGED <<persistedVars, envVars, sdkVars, sent, produced, loads, navs,
                 stimuli>>

NextBucket == BucketCall

SpecBucket == InitBucket /\ [][NextBucket]_vars

\* C11: of two evaluations of isUserInSample() for the same visitor and
\* experiment, the one with the larger allocation admits the visitor if the
\* one with the smaller allocation does; allocation 0 admits no visitor and
\* allocation 100 admits every visitor.
C11_AllocationMonotone ==
  /\ \A c, d \in {probe.first, probe.second} \ {NoCall} :
       c.allocation < d.allocation /\ c.admitted => d.admitted
  /\ \A c \in {probe.first, probe.second} \ {NoCall} :
       /\ c.allocation = 0 => ~ c.admitted
       /\ c.allocation = 100 => c.admitted

\* a visitor admitted at one allocation was evaluated again at a larger
\* allocation below 100
C11_Witness ==
  /\ probe.first # NoCall /\ probe.second # NoCall
  /\ probe.first.admitted
  /\ probe.first.allocation < probe.second.allocation
  /\ probe.second.allocation < 100

\* C12: an exposure recorded at time T is in the ledger, with the time it
\* was recorded, as long as its age is at most the attribution window minus
\* one, and the ledger of a page holds no exposure whose age is the
\* attribution window plus one or more.
C12_ExposureExpiry ==
  [][ /\ \A e \in DOMAIN lsExposures :
           now' - lsExposures[e].exposedAt <= attributionWindowDays - 1
           => /\ e \in DOMAIN lsExposures'
              /\ lsExposures'[e].exposedAt = lsExposures[e].exposedAt
              /\ pc' # "none" => e \in DOMAIN exposures'
      /\ pc' # "none" =>
           \A e \in DOMAIN exposures' :
             ~ (now' - exposures'[e].exposedAt >= attributionWindowDays + 1)
    ]_vars

\* C13: once a pass over the experiments of a configuration has ended, every
\* well-formed RUNNING experiment with allocation 100 that matches the URL
\* and the audience has its assignment, its exposure and its
\* EXPERIMENT_VIEW envelope, whether or not another entry of the
\* configuration is malformed.
C13_FailureIsolation ==
  pc \in {"raf", "done"} =>
    \A exp \in experimentsOf(config) :
      Targeted(exp, url) /\ exp.trafficAllocation = 100 =>
        /\ exp.id \in DOMAIN assignments
        /\ exp.id \in DOMAIN exposures
        /\ exp.id \in activeExperiments
        /\ ViewedInSession(exp.id, sessionId)

\* the experiments a step evaluates up to recordExposure()
Exposed(exp) ==
  /\ exp.id \in DOMAIN lsExposures'
  /\ \/ exp.id \notin DOMAIN lsExposures
     \/ lsExposures'[exp.id].exposureCount > lsExposures[exp.id].exposureCount

\* the pass a step runs: 0 for the pass of init(), else the number of the
\* navigation
PassOfStep == IF navs' = navs + 1 THEN navs' ELSE 0

\* the change c of experiment e, of the pass p, is applied to every element
\* of the document that its selector matches and its mutation does not
\* throw on
AppliedWhereItCan(e, sel, action, p) ==
  \A el \in Elements(sel) :
    ~ Throws(action, el) =>
      [experimentId |-> e, selector |-> sel, pass |-> p, element |-> el]
        \in applied'

\* C14: when a pass exposes the visitor to an experiment with a non-control
\* variant, every change of the variant whose selector can be evaluated is
\* applied to every matching element on which its mutation does not throw,
\* or is waited for when no element matches yet; when a wait ends and
\* elements match, the change is applied to them in the same way; and
\* nothing applied is lost.  No throwing element, change with a selector
\* that cannot be evaluated, or malformed entry elsewhere prevents that.
C14_MutationIsolation ==
  [][ /\ \A exp \in experimentsOf(config') :
           Exposed(exp) /\ exp.id \in DOMAIN assignments' =>
             LET vi == find(exp.variants, assignments'[exp.id].variantId)
                 changes == exp.variants[vi].changes
             IN  vi # 0 /\ ~ exp.variants[vi].isControl =>
                   \A i \in DOMAIN changes :
                     changes[i].selector # BadSelector =>
                       IF changes[i].selector \in dom'
                         THEN AppliedWhereItCan(exp.id, changes[i].selector,
                                                changes[i].action, PassOfStep)
                         ELSE changes[i].waitForSelector > 0 =>
                                \E w \in pendingWaits' :
                                  /\ w.experimentId = exp.id
                                  /\ w.selector = changes[i].selector
                                  /\ w.pass = PassOfStep
      /\ loads' = loads =>
           /\ \A w \in pendingWaits \ pendingWaits' :
                w.selector \in dom' =>
                  AppliedWhereItCan(w.experimentId, w.selector, w.action, w.pass)
           /\ applied \subseteq applied' ]_vars

\* under the snapshot with faults the visitor got the variant t of e1: the
\* change with the selector that cannot be evaluated was rejected, its
\* sibling change threw on the root element and was applied to the other
\* element, and the change of e2 was applied to both
C14_Witness ==
  /\ config = FaultyConfigId
  /\ \E p \in {0, 1} :
       /\ [experimentId |-> "e1", selector |-> "s1", pass |-> p,
           element |-> "div"] \in applied
       /\ [experimentId |-> "e1", selector |-> "s1", pass |-> p,
           element |-> "html"] \notin applied
       /\ [experimentId |-> "e2", selector |-> "s1", pass |-> p,
           element |-> "html"] \in applied

\* the envelopes of a sequence of batches, in the order they were sent
RECURSIVE Flatten(_)
Flatten(batches) ==
  IF batches = << >> THEN << >> ELSE Head(batches) \o Flatten(Tail(batches))

\* s can be obtained from t by leaving elements out
RECURSIVE IsSubseq(_, _)
IsSubseq(s, t) ==
  IF s = << >> THEN TRUE
  ELSE IF t = << >> THEN FALSE
  ELSE IF Head(s) = Head(t) THEN IsSubseq(Tail(s), Tail(t))
  ELSE IsSubseq(s, Tail(t))

\* the envelopes a step passes to eventQueue.push, in order
Pushed == SubSeq(produced', Len(produced) + 1, Len(produced'))

\* C15: the batches sent, followed by the queue, are the batches sent
\* before the step, followed by the queue before the step and the envelopes
\* the step enqueues, in that order (a page load flushes the whole queue of
\* the page it tears down or drops it); a step that sends starts its batch
\* with the whole queue; no envelope is in more batches than it was
\* enqueued; and the answer to a delivery, failure included, changes
\* neither the queue nor the batches sent.
C15_AtMostOnce ==
  [][ /\ \E kept \in {eventQueue} \cup
                        (IF loads' = loads THEN {} ELSE {<< >>}) :
           Flatten(sent') \o eventQueue' = Flatten(sent) \o kept \o Pushed
      /\ Len(sent') > Len(sent) /\ eventQueue # << >> =>
           /\ Len(sent'[Len(sent) + 1]) >= Len(eventQueue)
           /\ SubSeq(sent'[Len(sent) + 1], 1, Len(eventQueue)) = eventQueue
      /\ \A i \in DOMAIN sent : sent'[i] = sent[i]
      /\ IsSubseq(Flatten(sent') \o eventQueue', produced')
      /\ inFlight' < inFlight /\ loads' = loads =>
           /\ eventQueue' = eventQueue
           /\ sent' = sent
           /\ produced' = produced ]_vars

\* a batch of the first page was sent, its POST has settled, and the queue
\* holds envelopes enqueued after it
C15_Witness ==
  /\ loads = 1 /\ sent # << >> /\ inFlight = 0 /\ eventQueue # << >>

\* C16: after every step the queue holds fewer than 5 envelopes; a step that
\* brings the queue to 5 envelopes sends them as a batch; a hidden document,
\* a page-hide and a flush() call send the whole queue as one batch and
\* leave it empty; a page load sends at most the queue of the page it
\* replaces; and no batch is empty.
C16_FlushTriggers ==
  [][ /\ Len(eventQueue') < FLUSH_AT
      /\ loads' = loads /\ Len(eventQueue) + Len(Pushed) >= FLUSH_AT =>
           /\ Len(sent') > Len(sent)
           /\ Len(sent'[Len(sent) + 1]) = FLUSH_AT
      /\ Flush => eventQueue' = << >> /\ sent' = Append(sent, eventQueue)
      /\ loads' # loads => sent' \in {sent, Append(sent, eventQueue)}
      /\ \A i \in DOMAIN sent' : sent'[i] # << >> ]_vars

\* an enqueue brought the queue to 5 envelopes and they were sent as a batch
C16_Witness ==
  \E i \in DOMAIN sent : Len(sent[i]) = FLUSH_AT

\* C17: a page load whose stored session id is absent, or whose
\* last-activity record is absent or older than the inactivity timeout,
\* generates a session id never used before, stores it and enqueues exactly
\* one SESSION_START envelope; any other page load keeps the stored session
\* id and enqueues no SESSION_START; every page load sets the last-activity
\* record to the current time; and between page loads the session id does
\* not change and no SESSION_START is enqueued.
C17_SessionLifecycle ==
  [][ /\ loads' # loads =>
           LET expired == \/ ssSid = Undefined
                          \/ lsLastActive = 0
                          \/ now - lsLastActive > SESSION_TIMEOUT_MS
           IN  /\ expired =>
                    /\ sessionId' # ssSid
                    /\ \A i \in DOMAIN produced :
                         produced[i].sessionId # sessionId'
                    /\ Cardinality(NewEnvelopes("SESSION_START")) = 1
               /\ ~ expired =>
                    /\ sessionId' = ssSid
                    /\ NewEnvelopes("SESSION_START") = {}
               /\ ssSid' = sessionId'
               /\ lsLastActive' = now'
      /\ loads' = loads =>
           /\ sessionId' = sessionId
           /\ ssSid' = ssSid
           /\ NewEnvelopes("SESSION_START") = {} ]_vars

\* the second page load came after the inactivity timeout and started the
\* second session
C17_Witness ==
  /\ loads = 2 /\ sessionId = 2
  /\ Cardinality({ i \in DOMAIN produced :
                     produced[i].eventType = "SESSION_START" }) = 2

\* C18: a page load takes the visitor id from the cross-subdomain store if
\* it holds one, else from the per-origin store if it holds one, else
\* generates one, and leaves the id in both stores; the id of a page does
\* not change; and the cross-subdomain store holds on a sibling subdomain
\* what it held before, so that the page loaded there keeps the visitor id.
C18_VisitorIdentity ==
  [][ /\ loads' # loads =>
           /\ cookieVid # Null => visitorId' = cookieVid
           /\ cookieVid = Null /\ lsVid # Null => visitorId' = lsVid
           /\ visitorId' \in VisitorIds
           /\ cookieVid' = visitorId' /\ lsVid' = visitorId'
      /\ loads' = loads => visitorId' = visitorId
      /\ SubdomainChange => cookieVid' = cookieVid ]_vars

\* the cache entry holds a snapshot
HasSnapshot(cached) == cached # NoCache /\ cached.data # NoConfig

\* the step in which loadConfig() settles after a fetch
FetchSettles == loads' = loads /\ pc \in {"fetch", "body"} /\ pc' \notin {"fetch", "body"}

\* C19: a page load with a cached snapshot younger than CACHE_TTL uses it
\* and does not fetch; a page load with no cache entry or an older one
\* starts a fetch, which is pending no longer than the abort timer; when
\* loadConfig() settles after a fetch, either a snapshot was received, is
\* the configuration and is cached with the current time, or the fetch
\* failed, and then a cached snapshot is left as it was and is the
\* configuration, and without a cached snapshot the configuration is
\* absent; init() goes on in both cases; no other step writes the cache or
\* the configuration.
C19_ConfigStore ==
  [][ /\ loads' # loads =>
           /\ HasSnapshot(lsConfigCache) /\ now - lsConfigCache.ts < CACHE_TTL =>
                /\ pc' \notin {"fetch", "body"}
                /\ config' = lsConfigCache.data
           /\ (lsConfigCache = NoCache \/ now - lsConfigCache.ts >= CACHE_TTL) =>
                pc' = "fetch" /\ config' = NoConfig
           /\ lsConfigCache' = lsConfigCache
      /\ pc' = "fetch" => elapsed' <= FetchAbortTicks
      /\ FetchSettles =>
           /\ \/ \E c \in DOMAIN Snapshots :
                    /\ lsConfigCache' = [ts |-> now, data |-> c]
                    /\ config' = c
              \/ /\ HasSnapshot(lsConfigCache) =>
                       /\ lsConfigCache' = lsConfigCache
                       /\ config' = lsConfigCache.data
                 /\ ~ HasSnapshot(lsConfigCache) => config' = NoConfig
           /\ pc' \in {"waiting", "raf", "done"}
      /\ loads' = loads /\ ~ FetchSettles =>
           /\ lsConfigCache' = lsConfigCache
           /\ config' = config ]_vars

\* C20: within a page, the sets activeExperiments and trackedGoals only grow,
\* an EXPERIMENT_VIEW is enqueued only for an experiment that was not in
\* activeExperiments and a GOAL_CONVERSION only for a goal whose key was not
\* in trackedGoals; a navigation resolves neither the visitor nor the
\* session again, exposes the visitor to every RUNNING experiment with
\* allocation 100 that matches the new URL and the audience, and to no
\* experiment that does not, and leaves every PAGE_VIEW goal that matches the
\* new URL and has an exposure in the attribution window to attribute
\* recorded in trackedGoals.
C20_NavigationWatcher ==
  [][ loads' = loads =>
        /\ activeExperiments \subseteq activeExperiments'
        /\ trackedGoals \subseteq trackedGoals'
        /\ \A i \in NewEnvelopes("EXPERIMENT_VIEW") :
             /\ produced'[i].id \notin activeExperiments
             /\ produced'[i].id \in activeExperiments'
             /\ \A j \in NewEnvelopes("EXPERIMENT_VIEW") :
                  produced'[j].id = produced'[i].id => j = i
        /\ \A i \in NewEnvelopes("GOAL_CONVERSION") :
             /\ <<produced'[i].id, sessionId>> \notin trackedGoals
             /\ <<produced'[i].id, sessionId>> \in trackedGoals'
        /\ navs' = navs + 1 =>
             /\ visitorId' = visitorId /\ sessionId' = sessionId
             /\ cookieVid' = cookieVid /\ lsVid' = lsVid /\ ssSid' = ssSid
             /\ NewEnvelopes("SESSION_START") = {}
             /\ \A exp \in experimentsOf(config) :
                  /\ Targeted(exp, url') /\ exp.trafficAllocation = 100 =>
                       /\ Exposed(exp)
                       /\ exp.id \in DOMAIN lsAssignments'
                       /\ exp.id \in activeExperiments'
                  /\ ~ Targeted(exp, url') => ~ Exposed(exp)
             /\ \A g \in GoalSet(config) :
                  /\ g.type = "PAGE_VIEW"
                  /\ url' \in g.urlPattern
                  /\ \E e \in DOMAIN exposures' :
                       /\ now - exposures'[e].exposedAt <= attributionWindowDays
                       /\ g.experimentIds # {} => e \in g.experimentIds
                  => <<g.id, sessionId>> \in trackedGoals' ]_vars

\* after a navigation, an experiment matched a second time in the page has
\* one EXPERIMENT_VIEW in the session and a page-view goal is recorded
C20_Witness ==
  /\ loads = 1 /\ navs >= 1
  /\ \E e \in activeExperiments :
       /\ e \in DOMAIN exposures
       /\ exposures[e].exposureCount >= 2
       /\ Cardinality({ i \in DOMAIN produced :
                          /\ produced[i].eventType = "EXPERIMENT_VIEW"
                          /\ produced[i].id = e }) = 1
  /\ \E g \in GoalSet(config) :
       g.type = "PAGE_VIEW" /\ <<g.id, sessionId>> \in trackedGoals

HappyReveal ==
  /\ isRevealed'
  /\ ~ isRevealed \/ loads' # loads
  /\ failsafe' # "fired"

\* C22: a step that reveals the page without the failsafe timer having fired
\* leaves no configuration load in progress, no pass of init() in progress
\* and no element wait of the initial pass pending.
C22_RevealOrdering ==
  [][ HappyReveal =>
        /\ pc' \in {"raf", "done"}
        /\ { w \in pendingWaits' : w.pass = 0 } = {} ]_vars

\* the step runs the page-view goal check of a pass: that of a navigation,
\* or that of setupGoals() at the end of the initial pass
PageviewCheckRuns ==
  \/ navs' = navs + 1
  \/ goalsSetup' /\ (~ goalsSetup \/ loads' # loads)

\* the exposed experiments after the step
ExposedAfter ==
  { [experimentId |-> e, variantId |-> exposures'[e].variantId] :
      e \in DOMAIN exposures' \cap DOMAIN assignments' }

\* C23: every EXPERIMENT_VIEW and GOAL_CONVERSION envelope carries the
\* resolved visitor id and session id of its page; and when a step runs the
\* page-view goal check of a pass, every PAGE_VIEW goal that matches the URL,
\* was not recorded before in the page and has an experiment to attribute
\* among the exposures as they are after the pass, those recorded by the
\* same step included, is enqueued as a conversion attributed to them.
C23_Ordering ==
  [][ /\ \A i \in NewEnvelopes("EXPERIMENT_VIEW") \cup
                   NewEnvelopes("GOAL_CONVERSION") :
           /\ produced'[i].visitorId = visitorId'
           /\ produced'[i].visitorId \in VisitorIds
           /\ produced'[i].sessionId = sessionId'
           /\ produced'[i].sessionId # Undefined
      /\ \A e \in DOMAIN lsAssignments' :
           e \notin DOMAIN lsAssignments => visitorId' \in VisitorIds
      /\ PageviewCheckRuns =>
           \A g \in GoalSet(config') :
             LET attributed ==
                   { x \in ExposedAfter :
                       g.experimentIds # {} =>
                         x.experimentId \in g.experimentIds }
                 before == IF loads' # loads THEN {} ELSE trackedGoals
             IN  /\ g.type = "PAGE_VIEW"
                 /\ url' \in g.urlPattern
                 /\ <<g.id, sessionId'>> \notin before
                 /\ attributed # {}
                 => \E i \in NewEnvelopes("GOAL_CONVERSION") :
                      /\ produced'[i].id = g.id
                      /\ produced'[i].attributedExperiments = attributed ]_vars

\* a navigation exposed the visitor to e2 for the first time and the
\* page-view goal of e2 was recorded in the same step, attributed to it
C23_Witness ==
  /\ navs >= 1
  /\ "e2" \in DOMAIN exposures
  /\ exposures["e2"].exposureCount = 1
  /\ \E i \in DOMAIN produced :
       /\ i > 1
       /\ produced[i].eventType = "GOAL_CONVERSION"
       /\ produced[i].id = "g2"
       /\ \E x \in produced[i].attributedExperiments : x.experimentId = "e2"
       /\ produced[i - 1].eventType = "EXPERIMENT_VIEW"
       /\ produced[i - 1].id = "e2"
       /\ \E j \in 1 .. i - 2 : produced[j].eventType = "EXPERIMENT_VIEW"

\* C24: a navigation inside the document leaves the visitor id and the
\* session id of the page, the cookie and localStorage slots of the visitor
\* id and the sessionStorage slot of the session id as they are, generates
\* no session id and enqueues no SESSION_START; the envelopes it enqueues
\* carry the ids the page had before.
C24_NavigationIdentity ==
  [][ navs' = navs + 1 =>
        /\ loads' = loads
        /\ visitorId' = visitorId /\ sessionId' = sessionId
        /\ cookieVid' = cookieVid /\ lsVid' = lsVid
        /\ ssSid' = ssSid /\ nextSid' = nextSid
        /\ NewEnvelopes("SESSION_START") = {}
        /\ \A i \in DOMAIN produced' :
             i > Len(produced) =>
               /\ produced'[i].visitorId = visitorId
               /\ produced'[i].sessionId = sessionId ]_vars

\* a navigation recorded an exposure at a time when the stored session had
\* passed its inactivity timeout, and the page still has the one session
C24_Witness ==
  /\ loads = 1 /\ navs >= 1
  /\ sessionId = ssSid
  /\ \E e \in DOMAIN exposures :
       exposures[e].exposedAt - lsLastActive > SESSION_TIMEOUT_MS
  /\ Cardinality({ i \in DOMAIN produced :
                     produced[i].eventType = "SESSION_START" }) = 1

\* the step runs an evaluation pass over the experiments: a navigation, or
\* the initial pass once loadConfig() has settled with a configuration
PassRuns ==
  \/ navs' = navs + 1
  \/ /\ config' # NoConfig
     /\ \/ loads' = loads /\ pc \in {"fetch", "body"} /\ pc' \notin {"fetch", "body"}
        \/ loads' # loads /\ pc' # "fetch"

\* the exposure map a step starts from: the stored map, after
\* cleanupExpiredExposures() when the step is a page load
ExposuresBefore ==
  IF loads' = loads THEN lsExposures
  ELSE [e \in { x \in DOMAIN lsExposures :
                  now - lsExposures[x].exposedAt <= attributionWindowDays } |->
          lsExposures[e]]

\* C25: in a step that runs an evaluation pass, every experiment that
\* matches the URL and the audience and has an assignment after the pass,
\* whether to a control or to another variant, has its exposure recorded
\* once: an existing record has its exposureCount increased by exactly 1 and
\* is otherwise unchanged, a missing record is created with exposureCount 1,
\* the current time and the assigned variant; the records of all other
\* experiments are untouched; no other step touches the exposure map; and
\* after every step of a page the stored map equals the map in memory.
C25_RecordExposure ==
  [][ /\ PassRuns =>
           /\ \A exp \in experimentsOf(config') :
                LET e == exp.id
                IN  IF Targeted(exp, url') /\ e \in DOMAIN lsAssignments'
                      THEN /\ e \in DOMAIN lsExposures'
                           /\ lsExposures'[e] =
                                IF e \in DOMAIN ExposuresBefore
                                  THEN [ExposuresBefore[e] EXCEPT
                                          !.exposureCount = @ + 1]
                                  ELSE [variantId |->
                                          lsAssignments'[e].variantId,
                                        exposedAt |-> now',
                                        exposureCount |-> 1]
                      ELSE /\ e \in DOMAIN lsExposures' <=>
                                e \in DOMAIN ExposuresBefore
                           /\ e \in DOMAIN lsExposures' =>
                                lsExposures'[e] = ExposuresBefore[e]
           /\ \A e \in (DOMAIN lsExposures' \cup DOMAIN ExposuresBefore) \
                       { exp.id : exp \in experimentsOf(config') } :
                /\ e \in DOMAIN lsExposures' /\ e \in DOMAIN ExposuresBefore
                /\ lsExposures'[e] = ExposuresBefore[e]
      /\ ~ PassRuns => lsExposures' = ExposuresBefore
      /\ pc' # "none" => exposures' = lsExposures' ]_vars

\* a control variant has been exposed twice and another variant once
C25_Witness ==
  /\ \E e \in DOMAIN exposures :
       /\ exposures[e].exposureCount = 2
       /\ \E c \in ConfigIds : \E i \in DOMAIN Configs[c].experiments :
            /\ Configs[c].experiments[i].id = e
            /\ \E v \in DOMAIN Configs[c].experiments[i].variants :
                 /\ Configs[c].experiments[i].variants[v].id =
                      exposures[e].variantId
                 /\ Configs[c].experiments[i].variants[v].isControl
  /\ \E e \in DOMAIN exposures :
       /\ exposures[e].exposureCount = 1
       /\ exposures[e].variantId = "t"

\* C26: after every step of a page the stored assignment map equals the
\* assignment map in memory and the stored exposure map equals the exposure
\* map in memory; and the page that replaces another, however the other was
\* unloaded, starts with every assignment the other had and with every
\* exposure of the other that is inside the attribution window.
C26_WriteBack ==
  [][ /\ pc' # "none" =>
           /\ lsAssignments' = assignments'
           /\ lsExposures' = exposures'
      /\ loads' # loads /\ pc # "none" =>
           /\ \A e \in DOMAIN assignments :
                /\ e \in DOMAIN assignments'
                /\ assignments'[e] = assignments[e]
           /\ \A e \in DOMAIN exposures :
                now - exposures[e].exposedAt <= attributionWindowDays =>
                  /\ e \in DOMAIN exposures'
                  /\ exposures'[e].variantId = exposures[e].variantId
                  /\ exposures'[e].exposedAt = exposures[e].exposedAt
                  /\ exposures'[e].exposureCount >= exposures[e].exposureCount
    ]_vars

\* a page was unloaded abruptly with envelopes in its queue, and the page
\* after it has the assignment and the exposure, counted once more
C26_Witness ==
  /\ loads = 2
  /\ Len(produced) > Len(Flatten(sent)) + Len(eventQueue)
  /\ \E e \in DOMAIN exposures :
       /\ exposures[e].exposureCount = 2
       /\ e \in DOMAIN lsAssignments

\* a page load removed an expired exposure and the store has the map without
\* it
C26_WitnessCleanup ==
  /\ loads = 2
  /\ pc # "none"
  /\ \E e \in DOMAIN assignments : e \notin DOMAIN lsExposures

\* the allocation hash of the visitor of the page admits the visitor to exp
Admitted(exp) ==
  hashCode100(CharCodes(visitorId') \o CharCodes(exp.id) \o CharCodes("alloc"))
    < exp.trafficAllocation

\* the step leaves no trace of the experiment e: no assignment, the exposure
\* map as before, no EXPERIMENT_VIEW, no change applied or waited for
Untouched(e) ==
  /\ e \notin DOMAIN lsAssignments' /\ e \notin DOMAIN assignments'
  /\ e \in DOMAIN lsExposures' <=> e \in DOMAIN ExposuresBefore
  /\ e \in DOMAIN lsExposures' => lsExposures'[e] = ExposuresBefore[e]
  /\ \A i \in NewEnvelopes("EXPERIMENT_VIEW") : produced'[i].id # e
  /\ \A a \in applied' : a.experimentId = e => a.pass # PassOfStep
  /\ \A w \in pendingWaits' : w.experimentId = e => w.pass # PassOfStep

\* C27: in every evaluation pass, for every experiment that matches the URL
\* and the audience: a visitor without a stored assignment whose allocation
\* hash is not below trafficAllocation gets no assignment, no exposure, no
\* mutation and no EXPERIMENT_VIEW; a visitor without a stored assignment
\* whose hash is below trafficAllocation is assigned, in whichever pass that
\* is the case; a visitor with a stored assignment keeps it and is exposed,
\* whatever the allocation.
C27_SamplingGate ==
  [][ PassRuns =>
        \A exp \in experimentsOf(config') :
          Targeted(exp, url') =>
            IF exp.id \in DOMAIN lsAssignments
              THEN /\ exp.id \in DOMAIN lsAssignments'
                   /\ lsAssignments'[exp.id] = lsAssignments[exp.id]
                   /\ exp.id \in DOMAIN lsExposures'
                   /\ exp.id \in DOMAIN ExposuresBefore =>
                        lsExposures'[exp.id].exposureCount =
                          ExposuresBefore[exp.id].exposureCount + 1
              ELSE IF Admitted(exp)
                THEN /\ exp.id \in DOMAIN lsAssignments'
                     /\ exp.id \in DOMAIN lsExposures'
                ELSE Untouched(exp.id) ]_vars

\* visitor v2, whose allocation hash for e2 is 92, was passed over by e2 at
\* allocation 80 in an initial pass and in a navigation
C27_Witness ==
  /\ visitorId = "v2" /\ url = "/b" /\ config = 1
  /\ pc = "done" /\ navs >= 1
  /\ "e2" \notin DOMAIN assignments
  /\ \E exp \in experimentsOf(config) :
       exp.id = "e2" /\ Targeted(exp, url) /\ exp.trafficAllocation = 80

\* a visitor assigned to e1 at allocation 100 is exposed again under the
\* snapshot with allocation 10, which the allocation hash does not admit
C27_WitnessStored ==
  /\ config = 2 /\ url = "/a"
  /\ "e1" \in DOMAIN exposures
  /\ exposures["e1"].exposureCount = 2

\* the sum of the weights of the first i variants
RECURSIVE CumWeight(_, _)
CumWeight(variants, i) ==
  IF i = 0 THEN 0 ELSE CumWeight(variants, i - 1) + variants[i].trafficWeight

\* the bucketing hash of the evaluation, mod 100
ProbeHash ==
  hashCode100(CharCodes(probe.visitorId) \o CharCodes(probe.experimentId))

\* C28: bucket() returns the id of the first variant, in declaration order,
\* whose cumulative weight is strictly greater than the bucketing hash mod
\* 100, and the id of the first declared variant when no cumulative weight
\* is; the result is the id of a declared variant.
C28_BucketWalk ==
  probe.result # Null =>
    LET variants == probe.variants
        over == { i \in DOMAIN variants : CumWeight(variants, i) > ProbeHash }
    IN  /\ ProbeHash \in 0 .. 99
        /\ over # {} =>
             \E i \in over :
               /\ \A j \in over : i <= j
               /\ probe.result = variants[i].id
        /\ over = {} => probe.result = variants[1].id
        /\ \E i \in DOMAIN variants : probe.result = variants[i].id

\* a cumulative weight equal to the hash was passed over for the variant
\* after it
C28_Witness ==
  /\ probe.result # Null
  /\ \E i \in DOMAIN probe.variants :
       /\ i > 1
       /\ CumWeight(probe.variants, i - 1) = ProbeHash
       /\ probe.variants[i - 1].trafficWeight > 0
       /\ probe.result = probe.variants[i].id

\* no cumulative weight exceeds the hash and the first variant is returned
C28_WitnessFallback ==
  /\ probe.result # Null
  /\ Len(probe.variants) > 1
  /\ CumWeight(probe.variants, Len(probe.variants)) <= ProbeHash
  /\ CumWeight(probe.variants, Len(probe.variants)) > 0
  /\ probe.result = probe.variants[1].id

\* the step leaves the experiment e as it was: its assignment, its exposure
\* record, no EXPERIMENT_VIEW, no change applied or waited for
Skipped(e) ==
  /\ e \in DOMAIN lsAssignments' <=> e \in DOMAIN lsAssignments
  /\ e \in DOMAIN lsAssignments' => lsAssignments'[e] = lsAssignments[e]
  /\ pc' # "none" =>
       (e \in DOMAIN assignments' <=> e \in DOMAIN lsAssignments)
  /\ e \in DOMAIN lsExposures' <=> e \in DOMAIN ExposuresBefore
  /\ e \in DOMAIN lsExposures' => lsExposures'[e] = ExposuresBefore[e]
  /\ \A i \in NewEnvelopes("EXPERIMENT_VIEW") : produced'[i].id # e
  /\ \A a \in applied' : a.experimentId = e => a.pass # PassOfStep
  /\ \A w \in pendingWaits' : w.experimentId = e => w.pass # PassOfStep

\* status values other than RUNNING
NotRunning == {"PAUSED", "DRAFT"}

\* C29: a step that runs an evaluation pass leaves every experiment of the
\* configuration whose status is not RUNNING, or whose urlPattern does not
\* match the URL, as it was: no assignment created or changed, no exposure
\* created or counted, no change applied or waited for, no EXPERIMENT_VIEW,
\* whether or not the visitor has a stored assignment for it; and in every
\* state of a page, the iteration of the pass for any experiment of the
\* configuration, were its status not RUNNING or its urlPattern matching
\* nothing, would change nothing.
C29_Eligibility ==
  [][ /\ PassRuns =>
           \A exp \in experimentsOf(config') :
             exp.status # "RUNNING" \/ url' \notin exp.urlPattern =>
               Skipped(exp.id)
      /\ pc # "none" =>
           \A exp \in experimentsOf(config) :
             LET ctx == Ctx(config, url, now, dom, elapsed, navs + 1)
             IN  /\ \A st \in NotRunning :
                      processExperiment(Cur, [exp EXCEPT !.status = st], ctx)
                        = Cur
                 /\ processExperiment(Cur, [exp EXCEPT !.urlPattern = {}], ctx)
                      = Cur ]_vars

\* a navigation to a URL that e1 does not match left the stored assignment
\* and the exposure of e1 as they were, while e2 was exposed
C29_Witness ==
  /\ navs >= 1 /\ loads = 1 /\ config = 1 /\ url = "/b"
  /\ "e1" \in DOMAIN lsAssignments
  /\ "e1" \in DOMAIN exposures /\ exposures["e1"].exposureCount = 1
  /\ "e2" \in DOMAIN exposures
  /\ "e3" \notin DOMAIN lsAssignments

\* the page holds no value for the key of the predicate
Missing(aud, u) ==
  \/ aud.type = "QUERY_PARAM" /\ QueryParam(u, aud.key) = Null
  \/ aud.type = "COOKIE" /\ Cookie(aud.key) = Null
  \/ aud.type = "JS_VAR" /\ JsVar(aud.key) = Null

\* an experiment open to every visitor on the URL of the evaluation, with
\* the audience list of the evaluation
ProbeExperiment ==
  Experiment("e1", "RUNNING", 100, {probe.url}, probe.audiences,
             << Variant("c", TRUE, 100, << >>) >>)

\* C30: the audience list matches exactly when each of its predicates,
\* evaluated alone, matches; it does not match when the page holds no value
\* for the key of one of its predicates, whatever the operator; and the
\* iteration of the pass for an experiment with a list that does not match
\* changes nothing.
C30_AudienceEvaluation ==
  probe.called =>
    /\ probe.result <=>
         \A i \in DOMAIN probe.audiences :
           checkAudiences(<< probe.audiences[i] >>, probe.url)
    /\ (\E i \in DOMAIN probe.audiences :
          Missing(probe.audiences[i], probe.url)) => probe.result = FALSE
    /\ probe.result = FALSE =>
         /\ ~ Targeted(ProbeExperiment, probe.url)
         /\ processExperiment(Cur, ProbeExperiment,
                              Ctx(1, probe.url, now, dom, elapsed, 0)) = Cur

\* a list whose first predicate matches and whose second, IS_NOT or
\* NOT_CONTAINS on a key the page holds no value for, does not
C30_Witness ==
  /\ probe.called
  /\ probe.result = FALSE
  /\ Len(probe.audiences) = 2
  /\ checkAudiences(<< probe.audiences[1] >>, probe.url)
  /\ Missing(probe.audiences[2], probe.url)
  /\ probe.audiences[2].operator \in {"IS_NOT", "NOT_CONTAINS"}

\* a list of two predicates that both match
C30_WitnessMatch ==
  /\ probe.called
  /\ probe.result = TRUE
  /\ Len(probe.audiences) = 2
  /\ probe.audiences[1].type = "COOKIE"
  /\ probe.audiences[1].operator = "CONTAINS"
  /\ probe.audiences[2].type = "JS_VAR"
  /\ probe.audiences[2].operator = "GREATER_THAN"

C32_CrossTabIdentity ==
  LET tab == probe.tabs
  IN  /\ probe.cookieBy # 0 => cookieVid = tab[probe.cookieBy].vid
      /\ probe.lsBy # 0 => lsVid = tab[probe.lsBy].vid
      /\ \A t \in LateTabs :
           /\ tab[t].pc \in {"setCookie", "setLs", "done"} =>
                /\ tab[t].vid \in {tab[1].vid, tab[2].vid}
                /\ tab[t].vid # TabUUID(t)
           /\ tab[t].pc = "done" =>
                cookieVid = tab[t].vid /\ lsVid = tab[t].vid

\* tabs 1 and 2 run with different ids, the cookie holds one and localStorage
\* the other, and a late tab has adopted the one of the cookie
C32_Witness ==
  /\ probe.tabs[1].pc = "done" /\ probe.tabs[2].pc = "done"
  /\ probe.tabs[1].vid # probe.tabs[2].vid
  /\ cookieVid # lsVid
  /\ probe.tabs[3].pc = "setLs"
  /\ probe.tabs[3].vid = cookieVid

\* C33: when the handler is done with a GOAL_CONVERSION envelope that has a
\* goal id and a non-empty attribution list, there is one conversion row per
\* attributed experiment, in order, each with the envelope's whole value (no
\* value when the envelope has none or a zero), each attributed variant,
\* experiment and experiment goal has its counter at 1 and the others at 0,
\* and the daily revenue of each attributed experiment grew by the whole
\* value; with the goal id missing or the list missing or empty, nothing is
\* recorded.
C33_ConversionValue ==
  probe.pc = "done" =>
    LET evt == probe.evt
        db == probe.db
        valid == /\ evt.goalId # Null
                 /\ evt.attributedExperiments.present
                 /\ evt.attributedExperiments.list # << >>
        attr == IF valid THEN evt.attributedExperiments.list ELSE << >>
        exps == { attr[i].experimentId : i \in DOMAIN attr }
        vars_ == { attr[i].variantId : i \in DOMAIN attr }
        whole == IF evt.value.present /\ evt.value.n # 0
                   THEN evt.value ELSE NoValue
    IN  /\ Len(db.goalConversions) = Len(attr)
        /\ \A i \in DOMAIN attr :
             /\ db.goalConversions[i].experimentId = attr[i].experimentId
             /\ db.goalConversions[i].variantId = attr[i].variantId
             /\ db.goalConversions[i].goalId = evt.goalId
             /\ db.goalConversions[i].value = whole
        /\ \A v \in IngestVariants :
             db.variantConversions[v] = IF v \in vars_ THEN 1 ELSE 0
        /\ \A e \in ExpIds :
             /\ db.totalConversions[e] = IF e \in exps THEN 1 ELSE 0
             /\ db.goalCount[e] = db.totalConversions[e]
             /\ db.dailyConversions[e] = db.totalConversions[e]
             /\ db.dailyRevenue[e] = IF e \in exps THEN whole.n ELSE 0

\* an envelope with an amount and two attributed experiments has been handled
C33_Witness ==
  /\ probe.pc = "done"
  /\ Len(probe.db.goalConversions) = 2
  /\ probe.evt.value.n = 5
  /\ probe.db.goalConversions[1].value.n = 5
  /\ probe.db.goalConversions[2].value.n = 5

\* an envelope without a goal id or with no attribution has been handled
C33_WitnessNothing ==
  /\ probe.pc = "done"
  /\ probe.evt.goalId = Null \/ probe.evt.attributedExperiments.list = << >>
  /\ probe.db.goalConversions = << >>
  /\ probe.db.visitors # {}

\* C34: every envelope a step places in the queue, SESSION_START included,
\* carries a defined visitor id, the one of the SDK object, and the id of the
\* session the SDK object is in after the step (for SESSION_START the id of
\* the session the step has just generated).
C34_EnvelopeIdentity ==
  [][ \A i \in DOMAIN produced' :
        i > Len(produced) =>
          /\ produced'[i].visitorId # Null
          /\ produced'[i].visitorId = visitorId'
          /\ produced'[i].sessionId # Undefined
          /\ produced'[i].sessionId = sessionId' ]_vars

\* the same for every envelope other than SESSION_START
C34_OtherEnvelopes ==
  [][ \A i \in DOMAIN produced' :
        i > Len(produced) /\ produced'[i].eventType # "SESSION_START" =>
          /\ produced'[i].visitorId # Null
          /\ produced'[i].visitorId = visitorId'
          /\ produced'[i].sessionId # Undefined
          /\ produced'[i].sessionId = sessionId' ]_vars

\* C35: every GOAL_CONVERSION envelope a step enqueues carries a non-empty
\* attributedExperiments list, whether or not its goal is restricted to
\* experiments, whatever the persisted assignment and exposure maps hold.
C35_AttributedNonEmpty ==
  [][ \A i \in NewEnvelopes("GOAL_CONVERSION") :
        produced'[i].attributedExperiments # {} ]_vars

\* the same for the goals restricted to experiments
C35_RestrictedGoals ==
  [][ \A i \in NewEnvelopes("GOAL_CONVERSION") :
        goalOf(produced'[i]).experimentIds # {} =>
          produced'[i].attributedExperiments # {} ]_vars

\* C36: once a page is constructed, every experiment with an exposure record
\* has an assignment entry, with the variant of the exposure record.
C36_LedgerConsistency ==
  pc # "none" =>
    \A e \in DOMAIN exposures :
      /\ e \in DOMAIN assignments
      /\ assignments[e].variantId = exposures[e].variantId

\* C37: a stored exposure record keeps its exposedAt and its variantId in
\* every step, repeat exposures included, until a page is constructed more
\* than one attribution window after exposedAt; that construction removes
\* the record, whatever its exposureCount, and the experiment then has no
\* record or a new first exposure at the current time.
C37_WindowNotExtended ==
  [][ \A e \in DOMAIN lsExposures :
        IF loads' # loads /\ now' - lsExposures[e].exposedAt > attributionWindowDays
          THEN \/ e \notin DOMAIN lsExposures'
               \/ /\ lsExposures'[e].exposedAt = now'
                  /\ lsExposures'[e].exposureCount = 1
          ELSE /\ e \in DOMAIN lsExposures'
               /\ lsExposures'[e].exposedAt = lsExposures[e].exposedAt
               /\ lsExposures'[e].variantId = lsExposures[e].variantId
               /\ lsExposures'[e].exposureCount >= lsExposures[e].exposureCount
    ]_vars

\* a record exposed again after its first exposure is older than the window
C37_Witness ==
  \E e \in DOMAIN lsExposures :
    /\ lsExposures[e].exposureCount >= 2
    /\ now - lsExposures[e].exposedAt > attributionWindowDays

\* a page constructed after the window has removed the only record
C37_WitnessPurged ==
  /\ loads >= 2
  /\ lsAssignments # EmptyMap
  /\ lsExposures = EmptyMap
  /\ pc = "done"

\* C38: once init() has ended its initial pass with a configuration loaded
\* (it has scheduled the reveal or has revealed the page), setupGoals() has
\* run: the scroll and element-visibility listeners are installed and the
\* initial page-view goal check has been made.
C38_GoalsInstalled ==
  pc \in {"raf", "done"} /\ config # NoConfig => goalsSetup

\* C39: on a revealed page no step applies a change of the initial pass; in
\* particular the element waits of the initial pass that are pending when
\* the failsafe reveals the page apply nothing afterwards.
C39_NoFlicker ==
  [][ isRevealed /\ loads' = loads =>
        { a \in applied' \ applied : a.pass = 0 } = {} ]_vars

\* the same for the pages the failsafe did not reveal
C39_WithoutFailsafe ==
  [][ isRevealed /\ loads' = loads /\ failsafe # "fired" =>
        { a \in applied' \ applied : a.pass = 0 } = {} ]_vars

\* the assignment rows of the database that satisfy a condition
AssignmentsOf(experimentId, variantId) ==
  { a \in probe.db.assignments :
      /\ a.experimentId = experimentId
      /\ variantId # Null => a.variantId = variantId }

\* every invocation has gone through its batch
ViewsHandled ==
  \A h \in Handlers :
    probe.handlers[h].pc = "next" /\
    probe.handlers[h].k > Len(probe.handlers[h].batch)

\* C40: whatever the two invocations receive and however their statements
\* interleave, a visitor, identified by (projectId, visitorId), has at most
\* one assignment row per experiment, and the visitor counter of a variant,
\* the total-visitor counter and the daily impressions of an experiment
\* never exceed the number of assignment rows of that variant or
\* experiment: each (visitor, experiment) is counted at most once; when
\* both invocations are done the counters equal these numbers.
C40_CountedOnce ==
  LET db == probe.db
  IN  /\ \A a, b \in db.assignments :
           a.visitorId = b.visitorId /\ a.experimentId = b.experimentId
             => a = b
      /\ \A a \in db.assignments : a.visitorId \in db.visitors
      /\ \A v \in DOMAIN db.variantVisitors :
           db.variantVisitors[v] <= Cardinality(AssignmentsOf("e1", v))
      /\ db.totalVisitors["e1"] <= Cardinality(AssignmentsOf("e1", Null))
      /\ db.impressions["e1"] <= Cardinality(AssignmentsOf("e1", Null))
      /\ ViewsHandled =>
           /\ \A v \in DOMAIN db.variantVisitors :
                db.variantVisitors[v] = Cardinality(AssignmentsOf("e1", v))
           /\ db.totalVisitors["e1"] = Cardinality(AssignmentsOf("e1", Null))
           /\ db.impressions["e1"] = Cardinality(AssignmentsOf("e1", Null))

\* both invocations looked for the assignment of the same visitor before
\* either created it, one creation was rejected, and the batches are done
\* with the visitor counted once
C40_Witness ==
  /\ ViewsHandled
  /\ \A h \in Handlers :
       \A i \in {1, 2} : probe.handlers[h].batch[i].projectId = "p1"
                          /\ probe.handlers[h].batch[i].variantId # Null
  /\ probe.db.events = 2
  /\ probe.db.totalVisitors["e1"] = 1

=============================================================================
